---- MODULE Spec2Model ----
(***************************************************************************)
(* Benchmark harness of TryGDAL (python/): the large-scale and the        *)
(* cross-platform performance runners, their transactional batch writers, *)
(* the resource probe and the report.                                      *)
(*                                                                         *)
(* Feature counts, batch sizes and the full-read threshold are scaled     *)
(* down (the loops depend on them only through comparisons and            *)
(* remainders); the probe's per-feature byte estimates keep their values. *)
(***************************************************************************)
EXTENDS Integers, Sequences, FiniteSets, TLC

VARIABLES
    runner,            \* which script runs: "LargeScale" | "CrossPlatform"
    test_sizes,        \* self.test_sizes
    transaction_size,  \* batch_size / self.transaction_size
    HAS_PSUTIL,        \* module flag of cross_platform_performance_test
    output_dir_exists, \* the output directory was created
    pc,                \* position of the runner
    si,                \* index of the current size in test_sizes
    fi,                \* index of the current format in test_formats
    test_data,         \* len(test_data) of the dataset held, -1 when none
    size_results,      \* dict format -> result of the current size
    all_results,       \* dict size -> per-size record, in insertion order
    report,            \* rows written to the report file
    files,             \* the datasets on disk: path -> stored feature count
    cell,              \* locals of test_format_performance
    wr,                \* locals of the write function and the layer's state
    probe,             \* readings and verdict of the last check_resources
    log,               \* the phases executed so far, as <<si, format, phase>>
    faults,            \* environment anomalies injected so far
    gen,               \* locals of the dataset generator being called
    perf,              \* locals of performance_test() of performance_test.py
    footprint,         \* a base name's files on disk and the size measured
    summary,           \* results and advice of quick_performance_test.py
    range_call,        \* locals of list(range(start, stop, step))
    line,              \* locals of generate_complex_linestring
    fleet,             \* two runners at once and the files they touch
    cleanup            \* locals of the cleanup routines and their directory

\* the locals of the stand-alone scripts
scriptVars == <<summary, range_call, line, fleet, cleanup>>

vars == <<scriptVars, runner, test_sizes, transaction_size, HAS_PSUTIL, output_dir_exists,
          pc, si, fi, test_data, size_results, all_results, report, files,
          cell, wr, probe, log, faults, gen, perf, footprint>>

runVars == <<scriptVars, runner, test_sizes, transaction_size, HAS_PSUTIL,
             output_dir_exists, pc, si, fi, test_data, size_results,
             all_results, report, files, cell, probe, log, faults, gen, perf,
             footprint>>

-----------------------------------------------------------------------------
(* Bounds *)

MaxFeatures == 4   \* longest dataset handed to a write function on its own
MaxSize == 2       \* largest dataset size of a run
MaxBatch == 2      \* largest batch / transaction size
MaxSizes == 2      \* longest test_sizes list
MaxFaults == 1     \* environment anomalies per run
MaxMemUnits == 4   \* probe readings: multiples of the per-feature estimates
MaxCount == 6      \* largest count a generator is called with

None == -1   \* Python's None where a number is expected

Writers == {"LargeScale", "CrossPlatform", "Comprehensive"}
Runners == {"LargeScale", "CrossPlatform"}

test_formats == <<"Shapefile", "GeoPackage">>

-----------------------------------------------------------------------------
(* The batch writers.                                                      *)
(*   wr.M          len(test_data)                                          *)
(*   wr.N          batch_size (LargeScale), self.transaction_size          *)
(*   wr.fail_at    the insert (1-based) at which CreateFeature raises, 0   *)
(*                 when none does                                          *)
(*   wr.create_fails  CreateDataSource / CreateLayer raises                *)
(*   wr.close_commits what releasing a data source with an open            *)
(*                 transaction does to the pending inserts (the code       *)
(*                 leaves it to the driver): TRUE keeps, FALSE drops them  *)

NoWrite ==
    [kind |-> "LargeScale", M |-> 0, N |-> 1, fail_at |-> 0,
     create_fails |-> FALSE, close_commits |-> FALSE,
     pc |-> "idle", i |-> 0, ds_open |-> FALSE, txn_open |-> FALSE,
     pending |-> 0, committed |-> 0, transaction_count |-> 0,
     commits |-> 0, rollbacks |-> 0, max_pending |-> 0,
     closed_in_txn |-> FALSE, ret |-> "none", read_count |-> None]

NewWrite(kind, M, N, fail_at, create_fails, close_commits) ==
    [NoWrite EXCEPT !.kind = kind, !.M = M, !.N = N, !.fail_at = fail_at,
                    !.create_fails = create_fails,
                    !.close_commits = close_commits, !.pc = "create"]

\* layer.StartTransaction()
StartTransaction(w) == [w EXCEPT !.txn_open = TRUE]

\* layer.CommitTransaction()
CommitTransaction(w) ==
    [w EXCEPT !.committed = w.committed + w.pending, !.pending = 0,
              !.txn_open = FALSE, !.commits = w.commits + 1]

\* layer.RollbackTransaction()
RollbackTransaction(w) ==
    [w EXCEPT !.pending = 0, !.txn_open = FALSE,
              !.rollbacks = w.rollbacks + 1]

\* the data source is released (datasource = None, or the local goes out of
\* scope when the function is left)
ReleaseDataSource(w) ==
    [w EXCEPT !.ds_open = FALSE,
              !.closed_in_txn = w.txn_open,
              !.committed = IF w.txn_open /\ w.close_commits
                            THEN w.committed + w.pending ELSE w.committed,
              !.pending = 0,
              !.txn_open = FALSE]

\* the function is left: return True / return False / the exception leaves it
Leave(w, ret) == [ReleaseDataSource(w) EXCEPT !.pc = "done", !.ret = ret]

\* layer.CreateFeature(feature) succeeded
Inserted(w) ==
    [w EXCEPT !.pending = w.pending + 1, !.i = w.i + 1,
              !.max_pending = IF w.pending + 1 > w.max_pending
                              THEN w.pending + 1 ELSE w.max_pending]

AfterInsert(w) == [w EXCEPT !.pc = IF w.i = w.M THEN "final" ELSE "insert"]

\* write_format_optimized without the commit inside the loop
LargeScaleWriteStepUnbatched(w) ==
    CASE w.pc = "create" ->
            IF w.create_fails THEN Leave(w, "False")
            ELSE [w EXCEPT !.ds_open = TRUE, !.pc = "start"]
      [] w.pc = "start" ->
            AfterInsert(StartTransaction(w))
      [] w.pc = "insert" ->
            IF w.fail_at = w.i + 1
            THEN Leave(RollbackTransaction(w), "False")
            ELSE AfterInsert(Inserted(w))
      [] w.pc = "final" ->
            [CommitTransaction(w) EXCEPT !.pc = "close"]
      [] w.pc = "close" -> Leave(w, "True")
      [] OTHER -> w

\* write_format_optimized, one statement group at a time
LargeScaleWriteStep(w) ==
    CASE w.pc = "create" ->
            IF w.create_fails THEN Leave(w, "False")
            ELSE [w EXCEPT !.ds_open = TRUE, !.pc = "start"]
      [] w.pc = "start" ->
            AfterInsert(StartTransaction(w))
      [] w.pc = "insert" ->
            IF w.fail_at = w.i + 1
            THEN Leave(RollbackTransaction(w), "False")
            ELSE LET v == Inserted(w) IN
                 AfterInsert(IF v.i % v.N = 0
                             THEN StartTransaction(CommitTransaction(v))
                             ELSE v)
      [] w.pc = "final" ->
            [CommitTransaction(w) EXCEPT !.pc = "close"]
      [] w.pc = "close" -> Leave(w, "True")
      [] OTHER -> w

\* write_format_cross_platform without the commit after the loop
CrossPlatformWriteStepNoFinalCommit(w) ==
    CASE w.pc = "create" ->
            IF w.create_fails THEN Leave(w, "False")
            ELSE [w EXCEPT !.ds_open = TRUE, !.pc = "start"]
      [] w.pc = "start" ->
            AfterInsert([StartTransaction(w) EXCEPT !.transaction_count = 0])
      [] w.pc = "insert" ->
            IF w.fail_at = w.i + 1
            THEN Leave(w, "False")
            ELSE LET v == [Inserted(w) EXCEPT
                             !.transaction_count = w.transaction_count + 1]
                 IN AfterInsert(
                      IF v.transaction_count >= v.N
                      THEN [StartTransaction(CommitTransaction(v))
                              EXCEPT !.transaction_count = 0]
                      ELSE v)
      [] w.pc = "final" -> [w EXCEPT !.pc = "close"]
      [] w.pc = "close" -> Leave(w, "True")
      [] OTHER -> w

\* write_format_cross_platform, one statement group at a time
CrossPlatformWriteStep(w) ==
    CASE w.pc = "create" ->
            IF w.create_fails THEN Leave(w, "False")
            ELSE [w EXCEPT !.ds_open = TRUE, !.pc = "start"]
      [] w.pc = "start" ->
            AfterInsert([StartTransaction(w) EXCEPT !.transaction_count = 0])
      [] w.pc = "insert" ->
            IF w.fail_at = w.i + 1
            THEN Leave(w, "False")
            ELSE LET v == [Inserted(w) EXCEPT
                             !.transaction_count = w.transaction_count + 1]
                 IN AfterInsert(
                      IF v.transaction_count >= v.N
                      THEN [StartTransaction(CommitTransaction(v))
                              EXCEPT !.transaction_count = 0]
                      ELSE v)
      [] w.pc = "final" ->
            [(IF w.transaction_count > 0 THEN CommitTransaction(w) ELSE w)
               EXCEPT !.pc = "close"]
      [] w.pc = "close" -> Leave(w, "True")
      [] OTHER -> w

\* write_shapefile_optimized / write_geopackage_optimized of
\* comprehensive_performance_test: no try around the creation, one
\* transaction, the exception is re-raised to the caller
ComprehensiveWriteStep(w) ==
    CASE w.pc = "create" ->
            IF w.create_fails THEN Leave(w, "raised")
            ELSE [w EXCEPT !.ds_open = TRUE, !.pc = "start"]
      [] w.pc = "start" ->
            AfterInsert(StartTransaction(w))
      [] w.pc = "insert" ->
            IF w.fail_at = w.i + 1
            THEN Leave(RollbackTransaction(w), "raised")
            ELSE AfterInsert(Inserted(w))
      [] w.pc = "final" ->
            [CommitTransaction(w) EXCEPT !.pc = "close"]
      [] w.pc = "close" -> Leave(w, "None")
      [] OTHER -> w

WriteStep(w) ==
    CASE w.kind = "LargeScale" -> LargeScaleWriteStep(w)
      [] w.kind = "CrossPlatform" -> CrossPlatformWriteStep(w)
      [] OTHER -> ComprehensiveWriteStep(w)

\* the whole call: the steps until the function is left
RECURSIVE RunWrite(_)
RunWrite(w) == IF w.pc = "done" THEN w ELSE RunWrite(WriteStep(w))

-----------------------------------------------------------------------------
(* The resource probe *)

\* check_resources letting a size pass whose estimates equal the readings
LargeScaleCheckResourcesAtLeast(size, available_memory, available_disk) ==
    LET estimated_memory == size * 1024 * 2
        estimated_disk == size * 2048 * Len(test_formats) * 2
        memory_ok == available_memory >= estimated_memory
        disk_ok == available_disk >= estimated_disk
    IN  memory_ok /\ disk_ok

\* LargeScalePerformanceTest.check_resources
LargeScaleCheckResources(size, available_memory, available_disk) ==
    LET estimated_memory == size * 1024 * 2
        estimated_disk == size * 2048 * Len(test_formats) * 2
        memory_ok == available_memory > estimated_memory
        disk_ok == available_disk > estimated_disk
    IN  memory_ok /\ disk_ok

\* CrossPlatformPerformanceTest.check_resources; raises: a reading raised
CrossPlatformCheckResources(has_psutil, raises, size, available_memory, disk_free) ==
    IF ~has_psutil THEN TRUE
    ELSE IF raises THEN TRUE
    ELSE LET estimated_memory == size * 1024 * 2
             estimated_disk == size * 2048 * Len(test_formats) * 2
             memory_ok == available_memory > estimated_memory
             disk_ok == disk_free = None \/ disk_free > estimated_disk
         IN  memory_ok /\ disk_ok

\* the last call of check_resources: its inputs and its verdict
NoProbe == [runner |-> "LargeScale", has_psutil |-> TRUE, raises |-> FALSE,
            size |-> 0, available_memory |-> 0, disk_free |-> 0, ok |-> TRUE,
            taken |-> FALSE]

\* the readings the environment can give
MemoryReadings == {k * 2048 : k \in 0..MaxMemUnits}
DiskReadings == {k * 8192 : k \in 0..MaxMemUnits}

-----------------------------------------------------------------------------
(* Dicts *)

\* a dict as the sequence of its <<key, value>> items in insertion order
DictKeys(d) == {d[k][1] : k \in DOMAIN d}

DictGet(d, key) == (CHOOSE k \in DOMAIN d : d[k][1] = key)

DictValue(d, key) == d[DictGet(d, key)][2]

\* d[key] = value
DictSet(d, key, value) ==
    IF key \in DictKeys(d)
    THEN [d EXCEPT ![DictGet(d, key)] = <<key, value>>]
    ELSE Append(d, <<key, value>>)

\* the result dict of one cell; a field outside keys is not in the dict
NoneResult ==
    [isNone |-> TRUE, keys |-> {}, error |-> "",
     write_time |-> -1, write_throughput |-> -1,
     read_time |-> -1, read_throughput |-> -1, feature_count |-> -1]

EmptyResult == [NoneResult EXCEPT !.isNone = FALSE]

\* {'error': 'Write failed'}
WriteFailedResult ==
    [EmptyResult EXCEPT !.keys = {"error"}, !.error = "Write failed"]

\* the truth value of a result: None and {} are falsy
Truthy(result) == ~result.isNone /\ result.keys # {}

SampleThreshold == 1   \* full read up to this length (100000 in the source)

-----------------------------------------------------------------------------
(* The dataset generators.  A feature is its geometry kind and the id the  *)
(* generator gives it; the coordinates and the other attributes are left   *)
(* out.                                                                     *)

GenBatchSize == 2   \* batch_size of generate_test_data_batch (1000 in source)

Generators ==
    {"generate_test_data_batch", "test_performance", "create_test_points",
     "create_test_polygons"}

NoGen ==
    [which |-> "generate_test_data_batch", count |-> 0, pc |-> "idle",
     batch_start |-> 0, batch_end |-> 0, i |-> 0, batch_data |-> <<>>,
     test_data |-> <<>>, ret |-> "none"]

Min(a, b) == IF a < b THEN a ELSE b

\* generate_complex_linestring(line_id, ...): (line, attributes)
generate_complex_linestring(line_id) ==
    [kind |-> "LineString", id |-> line_id]

\* generate_test_data_batch taking whole batches only
GenerateTestDataBatchStepWholeBatches(g) ==
    CASE g.pc = "call" ->
            [g EXCEPT !.test_data = <<>>, !.batch_start = 0,
                      !.pc = "batch_head"]
      [] g.pc = "batch_head" ->
            IF g.batch_start + GenBatchSize <= g.count
            THEN [g EXCEPT !.batch_end = g.batch_start + GenBatchSize,
                           !.batch_data = <<>>, !.i = g.batch_start,
                           !.pc = "item"]
            ELSE [g EXCEPT !.pc = "done", !.ret = "list"]
      [] g.pc = "item" ->
            IF g.i < g.batch_end
            THEN [g EXCEPT !.batch_data =
                              Append(@, generate_complex_linestring(g.i)),
                           !.i = g.i + 1]
            ELSE [g EXCEPT !.test_data = g.test_data \o g.batch_data,
                           !.batch_start = g.batch_start + GenBatchSize,
                           !.pc = "batch_head"]
      [] OTHER -> g

\* LargeScalePerformanceTest.generate_test_data_batch(size): "call" is the
\* head of the function, "batch_head" the head of the loop over
\* range(0, size, batch_size), "item" the head of the loop over
\* range(batch_start, batch_end) with the extend after it
GenerateTestDataBatchStep(g) ==
    CASE g.pc = "call" ->
            [g EXCEPT !.test_data = <<>>, !.batch_start = 0,
                      !.pc = "batch_head"]
      [] g.pc = "batch_head" ->
            IF g.batch_start < g.count
            THEN [g EXCEPT !.batch_end = Min(g.batch_start + GenBatchSize,
                                             g.count),
                           !.batch_data = <<>>, !.i = g.batch_start,
                           !.pc = "item"]
            ELSE [g EXCEPT !.pc = "done", !.ret = "list"]
      [] g.pc = "item" ->
            IF g.i < g.batch_end
            THEN [g EXCEPT !.batch_data =
                              Append(@, generate_complex_linestring(g.i)),
                           !.i = g.i + 1]
            ELSE [g EXCEPT !.test_data = g.test_data \o g.batch_data,
                           !.batch_start = g.batch_start + GenBatchSize,
                           !.pc = "batch_head"]
      [] OTHER -> g

\* the loop "for i in range(size)" of CrossPlatformPerformanceTest
\* .test_performance that fills test_data
CrossPlatformGenerateStep(g) ==
    CASE g.pc = "call" ->
            [g EXCEPT !.test_data = <<>>, !.i = 0, !.pc = "item"]
      [] g.pc = "item" ->
            IF g.i < g.count
            THEN [g EXCEPT !.test_data =
                              Append(@, generate_complex_linestring(g.i)),
                           !.i = g.i + 1]
            ELSE [g EXCEPT !.pc = "done", !.ret = "list"]
      [] OTHER -> g

\* create_test_points(count) of performance_test.py
create_test_points(g) ==
    CASE g.pc = "call" ->
            [g EXCEPT !.test_data = <<>>, !.i = 0, !.pc = "item"]
      [] g.pc = "item" ->
            IF g.i < g.count
            THEN [g EXCEPT !.test_data =
                              Append(@, [kind |-> "Point", id |-> g.i + 1]),
                           !.i = g.i + 1]
            ELSE [g EXCEPT !.pc = "done", !.ret = "list"]
      [] OTHER -> g

\* create_test_polygons(count) of performance_test.py
create_test_polygons(g) ==
    CASE g.pc = "call" ->
            [g EXCEPT !.test_data = <<>>, !.i = 0, !.pc = "item"]
      [] g.pc = "item" ->
            IF g.i < g.count
            THEN [g EXCEPT !.test_data =
                              Append(@, [kind |-> "Polygon", id |-> g.i + 1]),
                           !.i = g.i + 1]
            ELSE [g EXCEPT !.pc = "done", !.ret = "list"]
      [] OTHER -> g

GenerateStep(g) ==
    CASE g.which = "generate_test_data_batch" -> GenerateTestDataBatchStep(g)
      [] g.which = "test_performance" -> CrossPlatformGenerateStep(g)
      [] g.which = "create_test_points" -> create_test_points(g)
      [] OTHER -> create_test_polygons(g)

NewGen(which, count) ==
    [NoGen EXCEPT !.which = which, !.count = count, !.pc = "call"]

\* the whole call: the steps until the generator returns
RECURSIVE RunGenerate(_)
RunGenerate(g) == IF g.pc = "done" THEN g ELSE RunGenerate(GenerateStep(g))

-----------------------------------------------------------------------------
(* performance_test() of performance_test.py: its locals *)

\* geometry_tests: the names, each with its create_func
geometry_tests == <<"Point", "Polygon">>

create_func(name) ==
    IF name = "Point" THEN "create_test_points" ELSE "create_test_polygons"

\* test_data: the length of the list the name test_data is bound to, None
\* while it is unbound; building: the length of the list create_func is
\* building and has not returned yet, None outside the call
\* files: the datasets in the output directory, path -> features stored
NoPerf ==
    [pc |-> "idle", test_sizes |-> <<>>, gi |-> 0, si |-> 0,
     test_data |-> None, building |-> None,
     geom_results |-> <<>>, results |-> <<>>, files |-> <<>>]

\* the path without the count
PerfPathNoCount(name, count, format_name) ==
    [name |-> IF name = "Point" THEN "point" ELSE "polygon", count |-> 0,
     format_name |-> format_name]

\* os.path.join(output_dir, f"{geom_test['name'].lower()}_{count}.shp"),
\* and the same with .gpkg
PerfPath(name, count, format_name) ==
    [name |-> IF name = "Point" THEN "point" ELSE "polygon", count |-> count,
     format_name |-> format_name]

\* the number of generated datasets alive
DatasetsHeld(p) ==
    (IF p.test_data # None THEN 1 ELSE 0) + (IF p.building # None THEN 1 ELSE 0)

-----------------------------------------------------------------------------
(* The files of one base name and the routines that measure them *)

\* the files a dataset of one base name can consist of, by extension
ShapefileExts == {".shp", ".shx", ".dbf", ".prj", ".cpg"}
DatasetFiles(format_name) ==
    IF format_name = "Shapefile" THEN ShapefileExts ELSE {".gpkg"}
AllFiles == ShapefileExts \cup {".gpkg"}

\* the scripts with a footprint routine
FootprintRoutines ==
    {"LargeScale", "CrossPlatform", "Demo", "Quick", "Comprehensive",
     "PerformanceTest"}

\* the scripts whose footprint routine also measures a GeoPackage
GeoPackageRoutines == {"LargeScale", "CrossPlatform", "Demo", "PerformanceTest"}

\* the extensions the footprint routine of a script adds up
SizeExts(routine) ==
    IF routine \in {"Demo", "Quick"}
    THEN {".shp", ".shx", ".dbf", ".prj"}
    ELSE {".shp", ".shx", ".dbf", ".prj", ".cpg"}

\* the extensions the write function of a script removes before it creates
\* the Shapefile
CleanupExts(routine) ==
    IF routine \in {"Demo", "Quick"}
    THEN {".shp", ".shx", ".dbf", ".prj"}
    ELSE {".shp", ".shx", ".dbf", ".prj", ".cpg"}

\* os.path.getsize: each file has its own size, so that a sum tells which
\* files went into it
getsize(file) ==
    CASE file = ".shp" -> 1
      [] file = ".shx" -> 2
      [] file = ".dbf" -> 4
      [] file = ".prj" -> 8
      [] file = ".cpg" -> 16
      [] OTHER -> 32

\* total_size += os.path.getsize(related_file), over a set of files
RECURSIVE total_size(_)
total_size(S) ==
    IF S = {} THEN 0
    ELSE LET f == CHOOSE x \in S : TRUE IN getsize(f) + total_size(S \ {f})

\* get_file_size / get_file_size_cross_platform / get_shapefile_size /
\* get_total_file_size / test_file_size; raises: os.path.getsize raises.
\* Only get_file_size_cross_platform catches it and returns 0.
FileSize(routine, format_name, exists, raises) ==
    IF raises
    THEN IF routine = "CrossPlatform"
         THEN [raised |-> FALSE, total |-> 0]
         ELSE [raised |-> TRUE, total |-> None]
    ELSE IF format_name = "Shapefile"
         THEN [raised |-> FALSE,
               total |-> total_size(SizeExts(routine) \cap exists)]
         ELSE [raised |-> FALSE,
               total |-> IF ".gpkg" \in exists THEN getsize(".gpkg") ELSE 0]

NoFootprint ==
    [routine |-> "LargeScale", format_name |-> "Shapefile", exists |-> {},
     pc |-> "idle", raised |-> FALSE, total |-> None]

-----------------------------------------------------------------------------
(* generate_complex_linestring: the geometry.  Coordinates are counted in  *)
(* units of 0.0005 degrees from the south-west corner (116.0, 39.4) of the *)
(* box, so the box is 0..LonMax by 0..LatMax, the base moves by BaseUnit   *)
(* per id and a step is StepMin..StepMax units long.                       *)

LonMin == 0       \* 116.0
LonMax == 2000    \* 117.0
LatMin == 0       \* 39.4
LatMax == 2400    \* 40.6
BaseUnit == 2     \* 0.001
BaseWrap == 1000  \* line_id % 1000
StepMin == 1      \* distance * cos(angle) is at least 0.0005 * cos(pi/6)
StepMax == 4      \* and at most 0.002
TurnMax == 2      \* distance * sin(angle) is within 0.002 * sin(pi/6)

Max(a, b) == IF a > b THEN a ELSE b

\* the coordinate left as it is
ClampNone(lo, hi, v) == v

\* max(lo, min(hi, v))
Clamp(lo, hi, v) == Max(lo, Min(hi, v))

base_lon(line_id) == LonMin + (line_id % BaseWrap) * BaseUnit
base_lat(line_id) == LatMin + (line_id % BaseWrap) * BaseUnit

NoLine ==
    [pc |-> "idle", line_id |-> 0, points_count |-> 0, i |-> 0,
     current_lon |-> 0, current_lat |-> 0, points |-> <<>>]

\* the assignments before the loop
NewLine(line_id, points_count) ==
    [NoLine EXCEPT !.pc = "loop", !.line_id = line_id,
                   !.points_count = points_count,
                   !.current_lon = base_lon(line_id),
                   !.current_lat = base_lat(line_id)]

\* one iteration of "for i in range(points_count)", the random step being
\* (dlon, dlat), or the end of the loop
LineStep(l, dlon, dlat) ==
    IF l.i >= l.points_count
    THEN [l EXCEPT !.pc = "done"]
    ELSE IF l.i = 0
         THEN [l EXCEPT !.points = Append(@, <<l.current_lon, l.current_lat>>),
                        !.i = 1]
         ELSE LET lon == Clamp(LonMin, LonMax, l.current_lon + dlon)
                  lat == Clamp(LatMin, LatMax, l.current_lat + dlat)
              IN  [l EXCEPT !.current_lon = lon, !.current_lat = lat,
                            !.points = Append(@, <<lon, lat>>),
                            !.i = l.i + 1]

-----------------------------------------------------------------------------
(* Two runners at once.  A path is its directory, the size in its name    *)
(* (0 for the report) and its extension; the disk is the set of the paths *)
(* that exist.  Each runner keeps the set of <<operation, path>> it did.  *)

DefaultDir == "default"   \* the directory used when none is given
Cwd == "cwd"              \* the current directory of the process

\* self.output_dir = output_dir or "<default>"; "" stands for None
OutputDir(output_dir) == IF output_dir = "" THEN DefaultDir ELSE output_dir

\* os.path.join(self.output_dir, f"lines_{size}.shp" / ".gpkg")
LinesPath(output_dir, format_name, size) ==
    [dir |-> output_dir, size |-> size,
     ext |-> IF format_name = "Shapefile" THEN ".shp" ELSE ".gpkg"]

\* the file name alone, which is looked up in the current directory
RelatedFileInCwd(file_path, ext) ==
    [dir |-> Cwd, size |-> file_path.size, ext |-> ext]

\* os.path.splitext(file_path)[0] + ext
RelatedFile(file_path, ext) == [file_path EXCEPT !.ext = ext]

\* os.path.join(self.output_dir, "<report>.md")
ReportPath(output_dir) == [dir |-> output_dir, size |-> 0, ext |-> ".md"]

\* the files of the dataset of file_path that the extensions exts name
RelatedFiles(format_name, file_path, exts) ==
    IF format_name = "Shapefile"
    THEN {RelatedFile(file_path, ext) : ext \in exts}
    ELSE {file_path}

\* the files the driver writes for a dataset; a .cpg is written only when
\* an encoding is asked for, and none is
CreatedFiles(format_name, file_path) ==
    RelatedFiles(format_name, file_path, {".shp", ".shx", ".dbf", ".prj"})

Did(op, paths) == {<<op, path>> : path \in paths}

NoFleet ==
    [pc |-> "idle", kind |-> <<>>, output_dir |-> <<>>, at |-> <<>>,
     leftover |-> {}, disk |-> {}, touched |-> <<>>]

-----------------------------------------------------------------------------
(* The cleanup routines: test_data_cleaner.py, cleanup_test_data.py and   *)
(* the cleanup menu of the cross-platform runner.  A file is its          *)
(* extension and whether it lies in a subdirectory; a line typed by the   *)
(* user is its word and whether white space surrounds it.                 *)

data_patterns ==
    <<".shp", ".shx", ".dbf", ".prj", ".cpg", ".gpkg", ".geojson", ".kml",
      ".kmz", ".gml", ".tmp", ".temp">>

report_patterns == <<".md", ".txt", ".log">>

CleanerRoutines == {"quick_cleanup_current_dir", "full_cleanup_current_dir"}

EntireRoutines ==
    {"cleanup_entire_directory", "cleanup_entire_output_directory"}

CleanupRoutines == CleanerRoutines \cup EntireRoutines \cup {"cleanup_all_files"}

\* the reports are cleaned whichever routine is called
include_reports_always(routine) == TRUE

\* the include_reports argument the routine passes on
include_reports(routine) == routine = "full_cleanup_current_dir"

\* patterns = data_patterns, extended by report_patterns if include_reports
Patterns(routine) ==
    IF include_reports(routine)
    THEN data_patterns \o report_patterns
    ELSE data_patterns

\* a set as a list, in the order the directory is listed
RECURSIVE SeqOf(_)
SeqOf(S) ==
    IF S = {}
    THEN <<>>
    ELSE LET x == CHOOSE y \in S : TRUE
         IN  <<x>> \o SeqOf(S \ {x})

\* base_dir.glob(pattern), and base_dir.glob("**/" + pattern), which also
\* yields the files of base_dir itself
Glob(disk, pattern, deep) ==
    SeqOf({f \in disk : f.ext = pattern /\ (deep \/ ~f.sub)})

\* TestDataCleaner.scan_test_files(base_dir, patterns)
RECURSIVE scan_test_files(_, _, _)
scan_test_files(dir_exists, disk, patterns) ==
    IF ~dir_exists \/ patterns = <<>>
    THEN <<>>
    ELSE Glob(disk, Head(patterns), FALSE)
            \o Glob(disk, Head(patterns), TRUE)
            \o scan_test_files(dir_exists, disk, Tail(patterns))

Words == {"", "y", "Y", "yes", "n", "1", "DELETE", "delete"}

NoInput == [given |-> FALSE, word |-> "", pad |-> FALSE]

Inputs == [given : {TRUE}, word : Words, pad : BOOLEAN]

\* str.strip()
Strip(typed) == typed.word

\* str.lower()
Lower(word) ==
    CASE word = "Y" -> "y"
      [] word = "DELETE" -> "delete"
      [] OTHER -> word

\* choice in ['y', 'yes', '是', '1'], choice being input().strip().lower()
ShouldClean(typed) == Lower(Strip(typed)) \in {"y", "yes", "1"}

\* the confirmation taken in any case
ConfirmsAnyCase(typed) == Lower(Strip(typed)) = "delete"

\* confirm == 'DELETE', confirm being input().strip()
Confirms(typed) == Strip(typed) = "DELETE"

NoCleanup ==
    [pc |-> "idle", routine |-> "quick_cleanup_current_dir",
     auto_confirm |-> FALSE, dir_before |-> FALSE, dir_exists |-> FALSE,
     before |-> {},
     disk |-> {}, found |-> <<>>, k |-> 0, typed |-> NoInput,
     interrupted |-> FALSE, deleted_count |-> 0, failures |-> 0,
     ret |-> "none"]

\* one iteration of a loop that unlinks the files of c.found; raises says
\* that unlink fails, which the loop catches and reports
UnlinkStep(c, raises) ==
    LET f == c.found[c.k]
    IN  IF f \in c.disk /\ ~raises
        THEN [c EXCEPT !.disk = @ \ {f}, !.deleted_count = @ + 1,
                       !.k = @ + 1]
        ELSE [c EXCEPT !.k = @ + 1,
                       !.failures = @ + (IF f \in c.disk THEN 1 ELSE 0)]

-----------------------------------------------------------------------------
(* list(range(start, stop, step)) with a positive step, element by        *)
(* element, and the arguments LargeScalePerformanceTest.__init__ gives it. *)

LargeScaleStart == 10000
LargeScaleStop == 1100000
LargeScaleStep == 100000

NoRangeCall ==
    [pc |-> "idle", start |-> 0, stop |-> 0, step |-> 1, out |-> <<>>]

\* the next element of the range, or its end
RangeStep(r) ==
    LET v == r.start + Len(r.out) * r.step
    IN  IF v < r.stop
        THEN [r EXCEPT !.out = Append(@, v)]
        ELSE [r EXCEPT !.pc = "done"]

-----------------------------------------------------------------------------
(* quick_performance_test.py: the results of the sizes and the summary.   *)
(* Times and sizes are small naturals; a ratio is kept as the pair        *)
(* <<numerator, denominator>> and the mean is compared with 1 exactly.    *)

MaxMetric == 2   \* largest time or file size measured

Formats == {"shapefile", "geopackage"}
Metrics == {"write_time", "read_time", "file_size"}

\* what test_formats may return for one size
FormatResults == [Formats -> [Metrics -> 0..MaxMetric]]

\* shp[metric] / gpkg[metric]
Ratio(result, metric) ==
    <<result["shapefile"][metric], result["geopackage"][metric]>>

\* ratios.append(...) under "if gpkg[metric] > 0", over results.items()
RECURSIVE Ratios(_, _)
Ratios(results, metric) ==
    IF results = <<>>
    THEN <<>>
    ELSE LET rest == Ratios(SubSeq(results, 1, Len(results) - 1), metric)
             result == results[Len(results)]
         IN  IF result["geopackage"][metric] > 0
             THEN Append(rest, Ratio(result, metric))
             ELSE rest

\* sum(ratios), as a fraction
RECURSIVE RatioSum(_)
RatioSum(ratios) ==
    IF ratios = <<>>
    THEN <<0, 1>>
    ELSE LET s == RatioSum(Tail(ratios))
             r == Head(ratios)
         IN  <<r[1] * s[2] + s[1] * r[2], r[2] * s[2]>>

\* ratios and sum(ratios) / len(ratios) < 1
MeanBelowOne(ratios) ==
    /\ ratios # <<>>
    /\ RatioSum(ratios)[1] < Len(ratios) * RatioSum(ratios)[2]

\* the advice print_summary prints for a metric
Advice(results, metric) ==
    IF MeanBelowOne(Ratios(results, metric)) THEN "Shapefile" ELSE "GeoPackage"

NoSummary == [pc |-> "idle", results |-> <<>>, advice |-> <<>>]

\* the stand-alone scripts are not running, those of except aside
IdleOthers(except) ==
    /\ "summary" \in except \/ summary = NoSummary
    /\ "range_call" \in except \/ range_call = NoRangeCall
    /\ "line" \in except \/ line = NoLine
    /\ "fleet" \in except \/ fleet = NoFleet
    /\ "cleanup" \in except \/ cleanup = NoCleanup

IdleScripts == IdleOthers({})

-----------------------------------------------------------------------------
(* The runners: test_large_scale_performance and test_performance *)

EmptyFiles == [p \in {} |-> 0]

\* read_env and query_env: what the environment did to the cell's read and
\* spatial query, "none" before they ran
NoCell ==
    [results |-> NoneResult, raised |-> FALSE, write_time |-> -1,
     read_env |-> "none", query_env |-> "none"]

\* lines_{size}.shp / lines_{size}.gpkg in the output directory
FilePath(format_name, size) == <<format_name, size>>

\* the feature count a path holds, None when the file does not exist
Stored(fs, path) == IF path \in DOMAIN fs THEN fs[path] ELSE None

FileSet(fs, path, count) ==
    [p \in DOMAIN fs \cup {path} |-> IF p = path THEN count ELSE fs[p]]

FileRemove(fs, path) == [p \in DOMAIN fs \ {path} |-> fs[p]]

\* the sizes a valid configuration may list
Increasing(sizes) ==
    \A k \in 1..(Len(sizes) - 1) : sizes[k] < sizes[k + 1]

SizeLists(lowest) ==
    {sizes \in UNION {[1..n -> lowest..MaxSize] : n \in 0..MaxSizes} :
        Increasing(sizes)}

ValidSizeLists == {sizes \in SizeLists(1) : Len(sizes) >= 1}

InitRunWith(sizeLists) ==
    /\ runner \in Runners
    /\ test_sizes \in sizeLists
    /\ transaction_size \in 1..MaxBatch
    /\ HAS_PSUTIL \in BOOLEAN
    /\ runner = "LargeScale" => HAS_PSUTIL
    /\ runner = "LargeScale" /\ sizeLists = ValidSizeLists
          => Len(test_sizes) >= 2
    /\ output_dir_exists = FALSE
    /\ pc = "construct"
    /\ si = 0
    /\ fi = 0
    /\ test_data = -1
    /\ size_results = <<>>
    /\ all_results = <<>>
    /\ report = <<>>
    /\ files = EmptyFiles
    /\ cell = NoCell
    /\ wr = NoWrite
    /\ probe = NoProbe
    /\ log = {}
    /\ faults = 0
    /\ gen = NoGen
    /\ perf = NoPerf
    /\ footprint = NoFootprint
    /\ IdleScripts

\* the lists the scripts set are increasing and hold positive sizes
Init == InitRunWith(ValidSizeLists)

\* test_sizes as an attribute anyone may set: also empty, also with size 0
InitConfig == InitRunWith(SizeLists(0))


Size == test_sizes[si]
Format == test_formats[fi]

Logged(phase) == log \cup {[si |-> si, fi |-> fi, phase |-> phase]}

LoggedSize(phase) == log \cup {[si |-> si, fi |-> 0, phase |-> phase]}

Cost(b) == IF b THEN 1 ELSE 0

\* __init__: the output directory is created, the parameters are set
Construct ==
    /\ pc = "construct"
    /\ output_dir_exists' = TRUE
    /\ pc' = "start"
    /\ UNCHANGED <<scriptVars, gen, perf, footprint,
                   runner, test_sizes, transaction_size, HAS_PSUTIL, si, fi,
                   test_data, size_results, all_results, report, files, cell,
                   wr, probe, log, faults>>

\* the head of the run, up to the loop over the sizes; the large-scale
\* runner prints test_sizes[1] - test_sizes[0]
Start ==
    /\ pc = "start"
    /\ IF runner = "LargeScale" /\ Len(test_sizes) < 2
       THEN /\ pc' = "crashed"
            /\ UNCHANGED <<si, all_results>>
       ELSE /\ pc' = "size_head"
            /\ si' = 1
            /\ all_results' = <<>>
    /\ UNCHANGED <<scriptVars, gen, perf, footprint,
                   runner, test_sizes, transaction_size, HAS_PSUTIL,
                   output_dir_exists, fi, test_data, size_results, report,
                   files, cell, wr, probe, log, faults>>

\* "if not self.check_resources(size)": the large-scale runner continues
\* with the next size, the cross-platform runner prints a warning and goes on
SkipsSizeNever(which, ok) == FALSE

SkipsSize(which, ok) == which = "LargeScale" /\ ~ok

\* the next size: check_resources and what the runner does with the verdict;
\* the readings are locals of check_resources, the verdict is what is left
CheckResources ==
    /\ pc = "size_head"
    /\ si <= Len(test_sizes)
    /\ \E available_memory \in MemoryReadings,
          disk_free \in DiskReadings \cup {None},
          raises \in BOOLEAN :
         LET ok == IF runner = "LargeScale"
                   THEN LargeScaleCheckResources(Size, available_memory,
                                                 disk_free)
                   ELSE CrossPlatformCheckResources(HAS_PSUTIL, raises, Size,
                                                    available_memory,
                                                    disk_free)
         IN  /\ runner = "LargeScale" => disk_free # None /\ ~raises
             /\ ~HAS_PSUTIL =>
                   available_memory = 0 /\ disk_free = 0 /\ ~raises
             /\ raises => available_memory = 0 /\ disk_free = 0
             /\ faults + Cost(raises) <= MaxFaults
             /\ faults' = faults + Cost(raises)
             /\ probe' = [NoProbe EXCEPT !.runner = runner, !.size = Size,
                                         !.ok = ok, !.taken = TRUE]
             /\ log' = LoggedSize("probe") \cup
                         (IF ok THEN {}
                          ELSE {[si |-> si, fi |-> 0, phase |-> "veto"]})
             /\ IF SkipsSize(runner, ok)
                THEN /\ si' = si + 1
                     /\ pc' = "size_head"
                ELSE /\ si' = si
                     /\ pc' = "generate"
    /\ UNCHANGED <<scriptVars, gen, perf, footprint,
                   runner, test_sizes, transaction_size, HAS_PSUTIL,
                   output_dir_exists, fi, test_data, size_results,
                   all_results, report, files, cell, wr>>

\* {'error': str(e)} of a size whose processing raised
SizeError == [keys |-> {"error"}, formats |-> <<>>]

SizeRecord(formats) ==
    [keys |-> {"data_generation_time", "formats"}, formats |-> formats]

\* the dataset of the size is generated
Generate ==
    /\ pc = "generate"
    /\ \E raises \in BOOLEAN :
         /\ faults + Cost(raises) <= MaxFaults
         /\ faults' = faults + Cost(raises)
         /\ IF raises
            THEN IF runner = "LargeScale"
                 THEN /\ all_results' = DictSet(all_results, Size, SizeError)
                      /\ si' = si + 1
                      /\ pc' = "size_head"
                      /\ UNCHANGED <<test_data, size_results, fi>>
                 ELSE /\ pc' = "crashed"
                      /\ UNCHANGED <<all_results, si, test_data,
                                     size_results, fi>>
            ELSE /\ test_data' =
                      Len(RunGenerate(NewGen(
                             IF runner = "LargeScale"
                             THEN "generate_test_data_batch"
                             ELSE "test_performance", Size)).test_data)
                 /\ size_results' = <<>>
                 /\ fi' = 1
                 /\ pc' = "format_head"
                 /\ UNCHANGED <<all_results, si>>
    /\ log' = LoggedSize("generate")
    /\ UNCHANGED <<scriptVars, gen, perf, footprint,
                   runner, test_sizes, transaction_size, HAS_PSUTIL,
                   output_dir_exists, report, files, cell, wr, probe>>

\* what the environment can do to a read or a query of a written file
ReadEnvs == {"ok", "missing", "open_error", "feature_error"}
QueryEnvs == {"ok", "open_error"}
Elapsed == {0, 1}   \* time.perf_counter() differences, in clock ticks

SampleSize == 1   \* sample_size of read_file_sample (1000 in the source)

\* "if not write_success" read as never true
WriteFailedNever(w) == FALSE

\* "if not write_success:" / "if not success:"
WriteFailed(w) == w.ret = "False"

\* test_format_performance up to "if not write_success": the timed write
CellWrite ==
    /\ pc = "format_head"
    /\ fi <= Len(test_formats)
    /\ \E fail_at \in 0..test_data, create_fails \in BOOLEAN,
          close_commits \in BOOLEAN, write_time \in Elapsed :
         LET failed == create_fails \/ fail_at > 0
             cost == Cost(failed) + Cost(write_time = 0)
             w == RunWrite(NewWrite(runner, test_data, transaction_size,
                                    fail_at, create_fails, close_commits))
             path == FilePath(Format, Size)
         IN  /\ ~(create_fails /\ fail_at > 0)
             /\ close_commits => runner = "CrossPlatform" /\ fail_at > 1
             /\ failed => write_time = 1
             /\ faults + cost <= MaxFaults
             /\ faults' = faults + cost
             /\ wr' = w
             /\ files' = IF create_fails THEN FileRemove(files, path)
                         ELSE FileSet(files, path, w.committed)
             /\ IF WriteFailed(w)
                THEN /\ cell' = [NoCell EXCEPT
                                   !.results = WriteFailedResult,
                                   !.write_time = write_time]
                     /\ pc' = "cell_store"
                ELSE /\ cell' = [NoCell EXCEPT
                                   !.results = EmptyResult,
                                   !.write_time = write_time]
                     /\ pc' = "cell_measure"
    /\ log' = Logged("write")
    /\ UNCHANGED <<scriptVars, gen, perf, footprint,
                   runner, test_sizes, transaction_size, HAS_PSUTIL,
                   output_dir_exists, si, fi, test_data, size_results,
                   all_results, report, probe>>

\* the file size and results['write_throughput'] = len(test_data) / write_time
CellMeasure ==
    /\ pc = "cell_measure"
    /\ IF cell.write_time = 0
       THEN /\ cell' = [cell EXCEPT !.raised = TRUE]
            /\ pc' = "cell_store"
       ELSE /\ cell' = [cell EXCEPT
                  !.results.keys = @ \cup {"write_time", "file_size",
                                           "write_throughput"},
                  !.results.write_time = cell.write_time,
                  !.results.write_throughput = test_data \div cell.write_time]
            /\ pc' = "cell_read"
    /\ log' = Logged("footprint")
    /\ UNCHANGED <<scriptVars, gen, perf, footprint,
                   runner, test_sizes, transaction_size, HAS_PSUTIL,
                   output_dir_exists, si, fi, test_data, size_results,
                   all_results, report, files, wr, probe, faults>>

\* read_file_complete: raises when the file cannot be opened or a feature
\* cannot be read (raised |-> TRUE), else the count
LargeScaleReadFileComplete(stored, env) ==
    IF stored = None \/ env = "missing" THEN [raised |-> FALSE, count |-> 0]
    ELSE IF env \in {"open_error", "feature_error"}
         THEN [raised |-> TRUE, count |-> 0]
         ELSE [raised |-> FALSE, count |-> stored]

\* read_file_sample
LargeScaleReadFileSample(stored, env) ==
    IF stored = None \/ env = "missing" THEN [raised |-> FALSE, count |-> 0]
    ELSE IF env \in {"open_error", "feature_error"}
         THEN [raised |-> TRUE, count |-> 0]
         ELSE IF stored <= SampleSize
              THEN LargeScaleReadFileComplete(stored, env)
              ELSE [raised |-> FALSE, count |-> SampleSize]

\* read_file_cross_platform: nothing is raised; a feature that cannot be
\* read is left out of the count
CrossPlatformReadFile(stored, env) ==
    IF stored = None \/ env = "missing" THEN [raised |-> FALSE, count |-> 0]
    ELSE IF env = "open_error" THEN [raised |-> FALSE, count |-> 0]
    ELSE IF env = "feature_error" /\ stored > 0
         THEN [raised |-> FALSE, count |-> stored - 1]
         ELSE [raised |-> FALSE, count |-> stored]

\* feature_count / read_time if read_time > 0 else 0
ReadThroughput(feature_count, read_time) ==
    IF read_time > 0 THEN feature_count \div read_time ELSE 0

\* the timed read
CellRead ==
    /\ pc = "cell_read"
    /\ \E env \in ReadEnvs, read_time \in Elapsed :
         LET cost == Cost(env # "ok") + Cost(read_time = 0)
             stored == Stored(files, FilePath(Format, Size))
             full == runner = "CrossPlatform" \/ test_data <= SampleThreshold
             r == IF runner = "CrossPlatform"
                  THEN CrossPlatformReadFile(stored, env)
                  ELSE IF full THEN LargeScaleReadFileComplete(stored, env)
                       ELSE LargeScaleReadFileSample(stored, env)
         IN  /\ faults + cost <= MaxFaults
             /\ faults' = faults + cost
             /\ IF r.raised
                THEN /\ cell' = [cell EXCEPT !.raised = TRUE,
                                             !.read_env = env]
                     /\ pc' = "cell_store"
                ELSE /\ pc' = "cell_query"
                     /\ cell' =
                          IF full
                          THEN [cell EXCEPT
                                 !.read_env = env,
                                 !.results.keys = @ \cup
                                    {"read_time", "read_throughput",
                                     "feature_count"},
                                 !.results.read_time = read_time,
                                 !.results.read_throughput =
                                    ReadThroughput(r.count, read_time),
                                 !.results.feature_count = r.count]
                          ELSE [cell EXCEPT
                                 !.read_env = env,
                                 !.results.keys = @ \cup
                                    {"sample_read_time", "sample_throughput",
                                     "estimated_full_read_time"}]
    /\ log' = Logged(IF runner = "CrossPlatform"
                        \/ test_data <= SampleThreshold
                     THEN "read" ELSE "sample_read")
    /\ UNCHANGED <<scriptVars, gen, perf, footprint,
                   runner, test_sizes, transaction_size, HAS_PSUTIL,
                   output_dir_exists, si, fi, test_data, size_results,
                   all_results, report, files, wr, probe>>

\* test_spatial_query_optimized: raises when the file cannot be opened; the
\* number of features in the query region depends on the coordinates, which
\* the model does not carry: known |-> TRUE stands for that count
LargeScaleSpatialQuery(stored, env) ==
    IF stored = None THEN [raised |-> FALSE, known |-> FALSE]
    ELSE IF env = "open_error" THEN [raised |-> TRUE, known |-> FALSE]
         ELSE [raised |-> FALSE, known |-> TRUE]

\* test_spatial_query_cross_platform: nothing is raised
CrossPlatformSpatialQuery(stored, env) ==
    IF stored = None THEN [raised |-> FALSE, known |-> FALSE]
    ELSE IF env = "open_error" THEN [raised |-> FALSE, known |-> FALSE]
         ELSE [raised |-> FALSE, known |-> TRUE]

\* the timed spatial query; return results
CellQuery ==
    /\ pc = "cell_query"
    /\ \E env \in QueryEnvs :
         LET cost == Cost(env # "ok")
             stored == Stored(files, FilePath(Format, Size))
             r == IF runner = "CrossPlatform"
                  THEN CrossPlatformSpatialQuery(stored, env)
                  ELSE LargeScaleSpatialQuery(stored, env)
         IN  /\ faults + cost <= MaxFaults
             /\ faults' = faults + cost
             /\ cell' = IF r.raised
                        THEN [cell EXCEPT !.raised = TRUE,
                                          !.query_env = env]
                        ELSE [cell EXCEPT
                                !.query_env = env,
                                !.results.keys = @ \cup
                                   {"query_time", "query_count"}]
    /\ pc' = "cell_store"
    /\ log' = Logged("query")
    /\ UNCHANGED <<scriptVars, gen, perf, footprint,
                   runner, test_sizes, transaction_size, HAS_PSUTIL,
                   output_dir_exists, si, fi, test_data, size_results,
                   all_results, report, files, wr, probe>>

\* back in the loop over the formats: size_results[format_name] = result,
\* or None in the except branch
CellStore ==
    /\ pc = "cell_store"
    /\ size_results' = DictSet(size_results, Format,
                               IF cell.raised THEN NoneResult
                               ELSE cell.results)
    /\ fi' = fi + 1
    /\ cell' = NoCell
    /\ pc' = "format_head"
    /\ UNCHANGED <<scriptVars, gen, perf, footprint,
                   runner, test_sizes, transaction_size, HAS_PSUTIL,
                   output_dir_exists, si, test_data, all_results, report,
                   files, wr, probe, log, faults>>

\* after the loop over the formats: all_results[size] = {...}; del test_data
RecordSize ==
    /\ pc = "format_head"
    /\ fi > Len(test_formats)
    /\ all_results' = DictSet(all_results, Size, SizeRecord(size_results))
    /\ test_data' = -1
    /\ si' = si + 1
    /\ pc' = "size_head"
    /\ UNCHANGED <<scriptVars, gen, perf, footprint,
                   runner, test_sizes, transaction_size, HAS_PSUTIL,
                   output_dir_exists, fi, size_results, report, files, cell,
                   wr, probe, log, faults>>

\* the table rows of one all_results item
ReportRowsOfSize(item) ==
    IF "error" \in item[2].keys \/ "formats" \notin item[2].keys THEN <<>>
    ELSE LET formats == item[2].formats
             Written(format_name) ==
                /\ format_name \in DictKeys(formats)
                /\ Truthy(DictValue(formats, format_name))
                /\ "error" \notin DictValue(formats, format_name).keys
             names == SelectSeq(test_formats, Written)
         IN  [k \in 1..Len(names) |-> <<item[1], names[k]>>]

\* generate_comprehensive_report / generate_cross_platform_report: the rows
\* of the result table, as <<size, format>>
RECURSIVE ReportRows(_, _)
ReportRows(results, k) ==
    IF k > Len(results) THEN <<>>
    ELSE ReportRowsOfSize(results[k]) \o ReportRows(results, k + 1)

\* the log entry of a report that could not be written
ReportFailure == [si |-> 0, fi |-> 0, phase |-> "report_failed"]

\* the loop over the sizes is over: the report is written.  raises: open()
\* or write() of the report file raises; generate_comprehensive_report lets
\* the exception through, generate_cross_platform_report catches it, prints
\* a warning and returns
GenerateReport ==
    /\ pc = "size_head"
    /\ si > Len(test_sizes)
    /\ \E raises \in BOOLEAN :
         /\ faults + Cost(raises) <= MaxFaults
         /\ faults' = faults + Cost(raises)
         /\ IF raises
            THEN /\ report' = report
                 /\ log' = log \cup {ReportFailure}
                 /\ pc' = IF runner = "LargeScale" THEN "report_failed"
                          ELSE "done"
            ELSE /\ report' = ReportRows(all_results, 1)
                 /\ log' = log
                 /\ pc' = "done"
    /\ UNCHANGED <<scriptVars, gen, perf, footprint,
                   runner, test_sizes, transaction_size, HAS_PSUTIL,
                   output_dir_exists, si, fi, test_data, size_results,
                   all_results, files, cell, wr, probe>>

\* run_large_scale_test / main: what the caller of the run prints once the
\* run has returned ("completed") or has been left through an exception
\* ("failed")
RunOutcome ==
    CASE pc = "done" -> "completed"
      [] pc \in {"crashed", "report_failed"} -> "failed"
      [] pc = "interrupted" -> "interrupted"
      [] OTHER -> "running"

Next ==
    \/ Construct
    \/ Start
    \/ CheckResources
    \/ Generate
    \/ CellWrite
    \/ CellMeasure
    \/ CellRead
    \/ CellQuery
    \/ CellStore
    \/ RecordSize
    \/ GenerateReport

Spec == Init /\ [][Next]_vars

SpecConfig == InitConfig /\ [][Next]_vars

\* the positions of a run in progress
Running ==
    {"start", "size_head", "generate", "format_head", "cell_measure",
     "cell_read", "cell_query", "cell_store"}

\* KeyboardInterrupt is raised between two statements of the runner or of
\* test_format_performance: no handler on the way catches it ("except
\* Exception" does not), the "except KeyboardInterrupt" of the entry point
\* prints a message; nothing is removed
Interrupt ==
    /\ pc \in Running
    /\ pc' = "interrupted"
    /\ UNCHANGED <<scriptVars, gen, perf, footprint,
                   runner, test_sizes, transaction_size, HAS_PSUTIL,
                   output_dir_exists, si, fi, test_data, size_results,
                   all_results, report, files, cell, wr, probe, log, faults>>

\* the write up to the point where at features are inserted
RECURSIVE RunWriteUntil(_, _)
RunWriteUntil(w, at) ==
    IF w.pc = "done" \/ (w.pc \in {"insert", "final"} /\ w.i = at) THEN w
    ELSE RunWriteUntil(WriteStep(w), at)

\* KeyboardInterrupt is raised inside the write function, in its loop after
\* at inserts: neither "except Exception" of the function catches it, so
\* there is no rollback; the data source is released as the frames are left
InterruptWrite ==
    /\ pc = "format_head"
    /\ fi <= Len(test_formats)
    /\ \E at \in 0..test_data, close_commits \in BOOLEAN :
         LET w == Leave(RunWriteUntil(NewWrite(runner, test_data,
                                               transaction_size, 0, FALSE,
                                               close_commits), at),
                        "interrupted")
         IN  /\ wr' = w
             /\ files' = FileSet(files, FilePath(Format, Size), w.committed)
    /\ log' = Logged("write")
    /\ pc' = "interrupted"
    /\ UNCHANGED <<scriptVars, gen, perf, footprint,
                   runner, test_sizes, transaction_size, HAS_PSUTIL,
                   output_dir_exists, si, fi, test_data, size_results,
                   all_results, report, cell, probe, faults>>

NextInterrupt ==
    \/ Next
    \/ Interrupt
    \/ InterruptWrite

SpecInterrupt == Init /\ [][NextInterrupt]_vars

\* test_sizes as any list of positive sizes, in any order, a size possibly
\* more than once
RepeatSizeLists == UNION {[1..n -> 1..MaxSize] : n \in 1..MaxSizes}

InitRepeat == InitRunWith(RepeatSizeLists)

SpecRepeat == InitRepeat /\ [][Next]_vars

-----------------------------------------------------------------------------
(* The write functions on their own: one call, statement group by         *)
(* statement group, for every dataset length, batch size and failure.     *)

IdleRunner ==
    /\ runner = "LargeScale"
    /\ test_sizes = <<>>
    /\ transaction_size = 1
    /\ HAS_PSUTIL = TRUE
    /\ output_dir_exists = FALSE
    /\ pc = "idle"
    /\ si = 0
    /\ fi = 0
    /\ test_data = -1
    /\ size_results = <<>>
    /\ all_results = <<>>
    /\ report = <<>>
    /\ files = EmptyFiles
    /\ cell = NoCell
    /\ log = {}
    /\ faults = 0

IdleRun ==
    /\ IdleRunner
    /\ IdleScripts

IdleRest ==
    /\ gen = NoGen
    /\ perf = NoPerf
    /\ footprint = NoFootprint

InitWrite ==
    /\ IdleRun
    /\ IdleRest
    /\ probe = NoProbe
    /\ \E kind \in Writers, M \in 0..MaxFeatures, N \in 1..MaxBatch,
          create_fails \in BOOLEAN, close_commits \in BOOLEAN :
         \E fail_at \in 0..M :
            wr = NewWrite(kind, M, N, fail_at, create_fails, close_commits)

\* CreateDataSource, CreateLayer, the fields
WriteCreate ==
    /\ wr.pc = "create"
    /\ wr' = WriteStep(wr)
    /\ UNCHANGED runVars

\* layer.StartTransaction() before the loop
WriteStart ==
    /\ wr.pc = "start"
    /\ wr' = WriteStep(wr)
    /\ UNCHANGED runVars

\* one iteration of the loop over test_data
WriteInsert ==
    /\ wr.pc = "insert"
    /\ wr' = WriteStep(wr)
    /\ UNCHANGED runVars

\* the commit after the loop
WriteFinal ==
    /\ wr.pc = "final"
    /\ wr' = WriteStep(wr)
    /\ UNCHANGED runVars

\* datasource = None; return
WriteClose ==
    /\ wr.pc = "close"
    /\ wr' = WriteStep(wr)
    /\ UNCHANGED runVars

\* read_file_optimized of comprehensive_performance_test: as
\* read_file_complete, the count of the features iterated
ComprehensiveReadFile(stored, env) ==
    IF stored = None \/ env = "missing" THEN [raised |-> FALSE, count |-> 0]
    ELSE IF env \in {"open_error", "feature_error"}
         THEN [raised |-> TRUE, count |-> 0]
         ELSE [raised |-> FALSE, count |-> stored]

\* the caller's full read of the file just written, nothing going wrong
WriteReadBack ==
    /\ wr.pc = "done"
    /\ ~wr.create_fails
    /\ LET r == CASE wr.kind = "LargeScale" ->
                      LargeScaleReadFileComplete(wr.committed, "ok")
                 [] wr.kind = "CrossPlatform" ->
                      CrossPlatformReadFile(wr.committed, "ok")
                 [] OTHER -> ComprehensiveReadFile(wr.committed, "ok")
       IN  wr' = [wr EXCEPT !.pc = "read", !.read_count = r.count]
    /\ UNCHANGED runVars

NextWrite ==
    \/ WriteCreate
    \/ WriteStart
    \/ WriteInsert
    \/ WriteFinal
    \/ WriteClose
    \/ WriteReadBack

SpecWrite == InitWrite /\ [][NextWrite]_vars

-----------------------------------------------------------------------------
(* The resource probe on its own: check_resources applied to every size   *)
(* and reading.                                                            *)

InitProbe ==
    /\ IdleRun
    /\ IdleRest
    /\ wr = NoWrite
    /\ probe = NoProbe

ProbeLargeScale ==
    /\ \E size \in 1..MaxSize, available_memory \in MemoryReadings,
          available_disk \in DiskReadings :
         probe' = [runner |-> "LargeScale", has_psutil |-> TRUE,
                   raises |-> FALSE, size |-> size,
                   available_memory |-> available_memory,
                   disk_free |-> available_disk,
                   ok |-> LargeScaleCheckResources(size, available_memory,
                                                   available_disk),
                   taken |-> TRUE]
    /\ UNCHANGED <<scriptVars, gen, perf, footprint,
                   runner, test_sizes, transaction_size, HAS_PSUTIL,
                   output_dir_exists, pc, si, fi, test_data, size_results,
                   all_results, report, files, cell, wr, log, faults>>

ProbeCrossPlatform ==
    /\ \E has_psutil \in BOOLEAN, raises \in BOOLEAN, size \in 1..MaxSize,
          available_memory \in MemoryReadings,
          disk_free \in DiskReadings \cup {None} :
         /\ ~has_psutil => ~raises
         /\ probe' = [runner |-> "CrossPlatform", has_psutil |-> has_psutil,
                      raises |-> raises, size |-> size,
                      available_memory |-> available_memory,
                      disk_free |-> disk_free,
                      ok |-> CrossPlatformCheckResources(
                                has_psutil, raises, size, available_memory,
                                disk_free),
                      taken |-> TRUE]
    /\ UNCHANGED <<scriptVars, gen, perf, footprint,
                   runner, test_sizes, transaction_size, HAS_PSUTIL,
                   output_dir_exists, pc, si, fi, test_data, size_results,
                   all_results, report, files, cell, wr, log, faults>>

NextProbe ==
    \/ ProbeLargeScale
    \/ ProbeCrossPlatform

SpecProbe == InitProbe /\ [][NextProbe]_vars

-----------------------------------------------------------------------------
(* The generators on their own: one call, for every generator and count.  *)

genRest == <<scriptVars, runner, test_sizes, transaction_size, HAS_PSUTIL, output_dir_exists, pc, si, fi, test_data, size_results, all_results, report, files, cell, wr, probe, log, faults, perf, footprint>>

InitGenerate ==
    /\ IdleRun
    /\ wr = NoWrite
    /\ probe = NoProbe
    /\ perf = NoPerf
    /\ footprint = NoFootprint
    /\ \E which \in Generators, count \in -1..MaxCount :
         gen = NewGen(which, count)

\* the head of the generator: test_data = []
GenerateCall ==
    /\ gen.pc = "call"
    /\ gen' = GenerateStep(gen)
    /\ UNCHANGED genRest

\* the head of the loop over the batches
GenerateBatchHead ==
    /\ gen.pc = "batch_head"
    /\ gen' = GenerateStep(gen)
    /\ UNCHANGED genRest

\* one iteration of the loop over the features, or its end
GenerateItem ==
    /\ gen.pc = "item"
    /\ gen' = GenerateStep(gen)
    /\ UNCHANGED genRest

NextGenerate ==
    \/ GenerateCall
    \/ GenerateBatchHead
    \/ GenerateItem

SpecGenerate == InitGenerate /\ [][NextGenerate]_vars

-----------------------------------------------------------------------------
(* The files of one dataset on their own: the cleanup before the write,   *)
(* the files the driver creates, the footprint measured afterwards.       *)

footprintRest == <<scriptVars, runner, test_sizes, transaction_size, HAS_PSUTIL, output_dir_exists, pc, si, fi, test_data, size_results, all_results, report, files, cell, wr, probe, log, faults, gen, perf>>

\* any files of the base name may be left over from an earlier run
InitFootprint ==
    /\ IdleRun
    /\ wr = NoWrite
    /\ probe = NoProbe
    /\ gen = NoGen
    /\ perf = NoPerf
    /\ \E routine \in FootprintRoutines, format_name \in {"Shapefile", "GeoPackage"}, exists \in SUBSET AllFiles :
         /\ format_name = "GeoPackage" => routine \in GeoPackageRoutines
         /\ footprint = [NoFootprint EXCEPT !.routine = routine,
                                            !.format_name = format_name,
                                            !.exists = exists,
                                            !.pc = "cleanup"]

\* the head of the write function: the files of the dataset are removed
FootprintCleanup ==
    /\ footprint.pc = "cleanup"
    /\ footprint' =
          [footprint EXCEPT
             !.exists = IF footprint.format_name = "Shapefile"
                        THEN @ \ CleanupExts(footprint.routine)
                        ELSE @ \ {".gpkg"},
             !.pc = "create"]
    /\ UNCHANGED footprintRest

\* the driver writes the dataset; whether the Shapefile driver writes a .cpg
\* is left to the driver (no ENCODING option is passed)
FootprintCreate ==
    /\ footprint.pc = "create"
    /\ \E writes_cpg \in BOOLEAN :
         footprint' =
            [footprint EXCEPT
               !.exists =
                  IF footprint.format_name = "Shapefile"
                  THEN @ \cup {".shp", ".shx", ".dbf", ".prj"}
                         \cup (IF writes_cpg THEN {".cpg"} ELSE {})
                  ELSE @ \cup {".gpkg"},
               !.pc = "measure"]
    /\ UNCHANGED footprintRest

\* file_size = self.get_file_size(format_name, file_path)
FootprintMeasure ==
    /\ footprint.pc = "measure"
    /\ \E raises \in BOOLEAN :
         LET r == FileSize(footprint.routine, footprint.format_name,
                           footprint.exists, raises)
         IN  footprint' = [footprint EXCEPT !.raised = r.raised,
                                            !.total = r.total,
                                            !.pc = "done"]
    /\ UNCHANGED footprintRest

NextFootprint ==
    \/ FootprintCleanup
    \/ FootprintCreate
    \/ FootprintMeasure

SpecFootprint == InitFootprint /\ [][NextFootprint]_vars

-----------------------------------------------------------------------------
(* performance_test() of performance_test.py: the loops over the geometry *)
(* types and the sizes.  Nothing is caught: an exception ends the run.    *)

perfRest == <<scriptVars, runner, test_sizes, transaction_size, HAS_PSUTIL, output_dir_exists, pc, si, fi, test_data, size_results, all_results, report, files, cell, wr, probe, log, faults, gen, footprint>>

\* test_sizes of performance_test(): an increasing list of counts
PerfSizeLists ==
    {sizes \in UNION {[1..n -> 1..MaxCount] : n \in 1..MaxSizes} :
        Increasing(sizes)}

InitPerformanceTest ==
    /\ IdleRun
    /\ wr = NoWrite
    /\ probe = NoProbe
    /\ gen = NoGen
    /\ footprint = NoFootprint
    /\ \E sizes \in PerfSizeLists :
         perf = [NoPerf EXCEPT !.test_sizes = sizes, !.gi = 1,
                               !.pc = "geom_head"]

\* for geom_test in geometry_tests: geom_results = {}
PerfGeomHead ==
    /\ perf.pc = "geom_head"
    /\ perf' = IF perf.gi <= Len(geometry_tests)
               THEN [perf EXCEPT !.geom_results = <<>>, !.si = 1,
                                 !.pc = "size_head"]
               ELSE [perf EXCEPT !.pc = "report"]
    /\ UNCHANGED perfRest

\* for size in test_sizes; after the loop results[name] = geom_results
PerfSizeHead ==
    /\ perf.pc = "size_head"
    /\ perf' = IF perf.si <= Len(perf.test_sizes)
               THEN [perf EXCEPT !.pc = "generate"]
               ELSE [perf EXCEPT
                       !.results = DictSet(@, geometry_tests[perf.gi],
                                           perf.geom_results),
                       !.gi = perf.gi + 1,
                       !.pc = "geom_head"]
    /\ UNCHANGED perfRest

\* geom_test['create_func'](size) runs: the new list is built while the name
\* test_data is still bound to the list of the size before
PerfGenerate ==
    /\ perf.pc = "generate"
    /\ perf' = [perf EXCEPT
                  !.building =
                     Len(RunGenerate(NewGen(
                            create_func(geometry_tests[perf.gi]),
                            perf.test_sizes[perf.si])).test_data),
                  !.pc = "bind"]
    /\ UNCHANGED perfRest

\* test_data = <the list returned>: the list of the size before is released
PerfBind ==
    /\ perf.pc = "bind"
    /\ perf' = [perf EXCEPT !.test_data = perf.building, !.building = None,
                            !.pc = "write"]
    /\ UNCHANGED perfRest

\* write_results = test_write_performance(...)
PerfWrite ==
    /\ perf.pc = "write"
    /\ LET name == geometry_tests[perf.gi]
           count == perf.test_sizes[perf.si]
           shp_path == PerfPath(name, count, "Shapefile")
           gpkg_path == PerfPath(name, count, "GeoPackage")
           shp_written == FileSet(perf.files, shp_path, perf.test_data)
       IN  \/ perf' = [perf EXCEPT
                         !.files = FileSet(shp_written, gpkg_path,
                                           perf.test_data),
                         !.pc = "read"]
           \/ perf' = [perf EXCEPT !.files = FileRemove(@, shp_path),
                                   !.pc = "crashed"]
           \/ perf' = [perf EXCEPT
                         !.files = FileRemove(shp_written, gpkg_path),
                         !.pc = "crashed"]
    /\ UNCHANGED perfRest

\* read_results = test_read_performance(...)
PerfRead ==
    /\ perf.pc = "read"
    /\ \E raises \in BOOLEAN :
         perf' = [perf EXCEPT !.pc = IF raises THEN "crashed" ELSE "size"]
    /\ UNCHANGED perfRest

\* size_results = test_file_size(...)
PerfFileSize ==
    /\ perf.pc = "size"
    /\ \E raises \in BOOLEAN :
         perf' = [perf EXCEPT !.pc = IF raises THEN "crashed" ELSE "record"]
    /\ UNCHANGED perfRest

\* geom_results[size] = {...}; the next size
PerfRecord ==
    /\ perf.pc = "record"
    /\ perf' = [perf EXCEPT
                  !.geom_results =
                     DictSet(@, perf.test_sizes[perf.si], perf.test_data),
                  !.si = perf.si + 1,
                  !.pc = "size_head"]
    /\ UNCHANGED perfRest

\* generate_performance_report(results, output_dir); return results
PerfReport ==
    /\ perf.pc = "report"
    /\ perf' = [perf EXCEPT !.pc = "done"]
    /\ UNCHANGED perfRest

NextPerformanceTest ==
    \/ PerfGeomHead
    \/ PerfSizeHead
    \/ PerfGenerate
    \/ PerfBind
    \/ PerfWrite
    \/ PerfRead
    \/ PerfFileSize
    \/ PerfRecord
    \/ PerfReport

SpecPerformanceTest == InitPerformanceTest /\ [][NextPerformanceTest]_vars

-----------------------------------------------------------------------------
(* quick_performance_test.py on its own: the loop over the sizes and the  *)
(* summary, for every time and file size measured.                        *)

QuickSizes == MaxSizes   \* len(test_sizes) of quick_performance_test

summaryRest == <<range_call, line, fleet, cleanup, runner, test_sizes, transaction_size, HAS_PSUTIL, output_dir_exists, pc, si, fi, test_data, size_results, all_results, report, files, cell, wr, probe, log, faults, gen, perf, footprint>>

InitSummary ==
    /\ IdleRunner
    /\ IdleRest
    /\ wr = NoWrite
    /\ probe = NoProbe
    /\ IdleOthers({"summary"})
    /\ summary = [NoSummary EXCEPT !.pc = "sizes"]

\* one iteration of the loop over test_sizes: results[size] = result
SummaryTestFormats ==
    /\ summary.pc = "sizes"
    /\ Len(summary.results) < QuickSizes
    /\ \E result \in FormatResults :
         summary' = [summary EXCEPT !.results = Append(@, result)]
    /\ UNCHANGED summaryRest

\* print_summary(results)
SummaryPrint ==
    /\ summary.pc = "sizes"
    /\ Len(summary.results) = QuickSizes
    /\ summary' = [summary EXCEPT
                     !.advice = [metric \in Metrics |->
                                    Advice(summary.results, metric)],
                     !.pc = "printed"]
    /\ UNCHANGED summaryRest

NextSummary ==
    \/ SummaryTestFormats
    \/ SummaryPrint

SpecSummary == InitSummary /\ [][NextSummary]_vars

-----------------------------------------------------------------------------
(* The list of test sizes on its own: the range, for the arguments of the *)
(* large-scale runner and for others around them.                          *)

RangeStarts == {0, LargeScaleStart, LargeScaleStep}
RangeStops == {LargeScaleStop - LargeScaleStep, LargeScaleStop}
RangeSteps == {LargeScaleStep, 2 * LargeScaleStep, 5 * LargeScaleStep}

rangeRest == <<summary, line, fleet, cleanup, runner, test_sizes, transaction_size, HAS_PSUTIL, output_dir_exists, pc, si, fi, test_data, size_results, all_results, report, files, cell, wr, probe, log, faults, gen, perf, footprint>>

InitRange ==
    /\ IdleRunner
    /\ IdleRest
    /\ wr = NoWrite
    /\ probe = NoProbe
    /\ IdleOthers({"range_call"})
    /\ \E start \in RangeStarts, stop \in RangeStops, step \in RangeSteps :
         range_call = [NoRangeCall EXCEPT !.pc = "next", !.start = start,
                                          !.stop = stop, !.step = step]

\* one more element of the list
RangeNext ==
    /\ range_call.pc = "next"
    /\ RangeStep(range_call).pc = "next"
    /\ range_call' = RangeStep(range_call)
    /\ UNCHANGED rangeRest

\* the range is exhausted: the list is complete
RangeEnd ==
    /\ range_call.pc = "next"
    /\ RangeStep(range_call).pc = "done"
    /\ range_call' = RangeStep(range_call)
    /\ UNCHANGED rangeRest

NextRange ==
    \/ RangeNext
    \/ RangeEnd

SpecRange == InitRange /\ [][NextRange]_vars

-----------------------------------------------------------------------------
(* One line string on its own: every id of LineIds, every number of       *)
(* points up to MaxPoints, every random step.                              *)

MaxPoints == 3   \* largest points_count

LineIds == {-1, 0, 1, BaseWrap - 1, BaseWrap, 2 * BaseWrap - 1}

lineRest == <<summary, range_call, fleet, cleanup, runner, test_sizes, transaction_size, HAS_PSUTIL, output_dir_exists, pc, si, fi, test_data, size_results, all_results, report, files, cell, wr, probe, log, faults, gen, perf, footprint>>

InitLine ==
    /\ IdleRunner
    /\ IdleRest
    /\ wr = NoWrite
    /\ probe = NoProbe
    /\ IdleOthers({"line"})
    /\ \E line_id \in LineIds, points_count \in 0..MaxPoints :
         line = NewLine(line_id, points_count)

\* i == 0: the start point
LineStart ==
    /\ line.pc = "loop"
    /\ line.i < line.points_count
    /\ line.i = 0
    /\ line' = LineStep(line, 0, 0)
    /\ UNCHANGED lineRest

\* i > 0: a random turn and distance, the clamps, the next point
LineWalk ==
    /\ line.pc = "loop"
    /\ line.i < line.points_count
    /\ line.i > 0
    /\ \E dlon \in StepMin..StepMax, dlat \in -TurnMax..TurnMax :
         line' = LineStep(line, dlon, dlat)
    /\ UNCHANGED lineRest

\* the loop is over: return line, attributes
LineReturn ==
    /\ line.pc = "loop"
    /\ line.i >= line.points_count
    /\ line' = LineStep(line, 0, 0)
    /\ UNCHANGED lineRest

NextLine ==
    \/ LineStart
    \/ LineWalk
    \/ LineReturn

SpecLine == InitLine /\ [][NextLine]_vars

-----------------------------------------------------------------------------
(* Two runners with different output directories, their steps interleaved *)
(* in every order.  Both run the same sizes, so the file names coincide.  *)
(* Only the steps that touch files are kept: a vetoed size or a failed    *)
(* write touches fewer files, never others.                                *)

FleetRunners == 1..2
FleetDirs == {"", "a", "b"}
FleetSizes == [k \in 1..MaxSizes |-> k]

fleetRest == <<summary, range_call, line, cleanup, runner, test_sizes, transaction_size, HAS_PSUTIL, output_dir_exists, pc, si, fi, test_data, size_results, all_results, report, files, cell, wr, probe, log, faults, gen, perf, footprint>>

\* files of lines_1 left by an earlier run, in either directory
FleetLeftovers(dirs) ==
    {RelatedFile(LinesPath(dirs[r], "Shapefile", 1), ext) :
        r \in FleetRunners, ext \in {".shp", ".cpg"}}

InitFleet ==
    /\ IdleRunner
    /\ IdleRest
    /\ wr = NoWrite
    /\ probe = NoProbe
    /\ IdleOthers({"fleet"})
    /\ \E kind \in [FleetRunners -> Runners], args \in [FleetRunners -> FleetDirs] :
         LET dirs == [r \in FleetRunners |-> OutputDir(args[r])]
         IN  /\ dirs[1] # dirs[2]
             /\ \E leftover \in SUBSET FleetLeftovers(dirs) :
                  fleet = [pc |-> "run", kind |-> kind, output_dir |-> dirs,
                           at |-> [r \in FleetRunners |->
                                     [pc |-> "cleanup", si |-> 1, fi |-> 1]],
                           leftover |-> leftover, disk |-> leftover,
                           touched |-> [r \in FleetRunners |-> {}]]

FleetAt(r) == fleet.at[r]

FleetFilePath(r) ==
    LinesPath(fleet.output_dir[r], test_formats[FleetAt(r).fi],
              FleetSizes[FleetAt(r).si])

FleetInCell(r, phase) ==
    /\ fleet.pc = "run"
    /\ FleetAt(r).pc = phase

\* the position after the last step of a cell
FleetNextCell(a) ==
    IF a.fi < Len(test_formats)
    THEN [pc |-> "cleanup", si |-> a.si, fi |-> a.fi + 1]
    ELSE IF a.si < Len(FleetSizes)
         THEN [pc |-> "cleanup", si |-> a.si + 1, fi |-> 1]
         ELSE [pc |-> "report", si |-> a.si, fi |-> a.fi]

\* the head of the write function: the existing files of the dataset are
\* removed
FleetCleanup ==
    \E r \in FleetRunners :
       /\ FleetInCell(r, "cleanup")
       /\ LET removed ==
                 RelatedFiles(test_formats[FleetAt(r).fi], FleetFilePath(r),
                              CleanupExts(fleet.kind[r])) \cap fleet.disk
          IN  fleet' = [fleet EXCEPT
                          !.disk = @ \ removed,
                          !.touched[r] = @ \cup Did("delete", removed),
                          !.at[r].pc = "create"]
       /\ UNCHANGED fleetRest

\* driver.CreateDataSource(file_path) and the features written to it
FleetCreate ==
    \E r \in FleetRunners :
       /\ FleetInCell(r, "create")
       /\ LET created ==
                 CreatedFiles(test_formats[FleetAt(r).fi], FleetFilePath(r))
          IN  fleet' = [fleet EXCEPT
                          !.disk = @ \cup created,
                          !.touched[r] = @ \cup Did("create", created),
                          !.at[r].pc = "measure"]
       /\ UNCHANGED fleetRest

\* get_file_size(format_name, file_path)
FleetMeasure ==
    \E r \in FleetRunners :
       /\ FleetInCell(r, "measure")
       /\ LET measured ==
                 RelatedFiles(test_formats[FleetAt(r).fi], FleetFilePath(r),
                              SizeExts(fleet.kind[r])) \cap fleet.disk
          IN  fleet' = [fleet EXCEPT
                          !.touched[r] = @ \cup Did("measure", measured),
                          !.at[r].pc = "read"]
       /\ UNCHANGED fleetRest

\* the read of file_path
FleetRead ==
    \E r \in FleetRunners :
       /\ FleetInCell(r, "read")
       /\ fleet' = [fleet EXCEPT
                      !.touched[r] =
                         @ \cup Did("read", {FleetFilePath(r)} \cap fleet.disk),
                      !.at[r].pc = "query"]
       /\ UNCHANGED fleetRest

\* the spatial query on file_path; the cell is over
FleetQuery ==
    \E r \in FleetRunners :
       /\ FleetInCell(r, "query")
       /\ fleet' = [fleet EXCEPT
                      !.touched[r] =
                         @ \cup Did("read", {FleetFilePath(r)} \cap fleet.disk),
                      !.at[r] = FleetNextCell(@)]
       /\ UNCHANGED fleetRest

\* the report is written into the output directory
FleetReport ==
    \E r \in FleetRunners :
       /\ FleetInCell(r, "report")
       /\ LET report_path == ReportPath(fleet.output_dir[r])
          IN  fleet' = [fleet EXCEPT
                          !.disk = @ \cup {report_path},
                          !.touched[r] = @ \cup Did("create", {report_path}),
                          !.at[r].pc = "done"]
       /\ UNCHANGED fleetRest

NextFleet ==
    \/ FleetCleanup
    \/ FleetCreate
    \/ FleetMeasure
    \/ FleetRead
    \/ FleetQuery
    \/ FleetReport

SpecFleet == InitFleet /\ [][NextFleet]_vars

-----------------------------------------------------------------------------
(* One call of a cleanup routine, for every content of the directory,     *)
(* every line the user may type and an unlink or rmtree that fails.       *)

cleanupRest == <<summary, range_call, line, fleet, runner, test_sizes, transaction_size, HAS_PSUTIL, output_dir_exists, pc, si, fi, test_data, size_results, all_results, report, files, cell, wr, probe, log, faults, gen, perf, footprint>>

\* the files a directory may hold
CleanupFiles ==
    {[ext |-> ".shp", sub |-> FALSE], [ext |-> ".gpkg", sub |-> FALSE],
     [ext |-> ".md", sub |-> FALSE], [ext |-> ".log", sub |-> FALSE],
     [ext |-> ".shp", sub |-> TRUE], [ext |-> ".txt", sub |-> TRUE]}

CleanupStart(routine) ==
    CASE routine \in CleanerRoutines -> "scan"
      [] routine \in EntireRoutines -> "confirm"
      [] OTHER -> "all_files"

InitCleanup ==
    /\ IdleRunner
    /\ IdleRest
    /\ wr = NoWrite
    /\ probe = NoProbe
    /\ IdleOthers({"cleanup"})
    /\ \E routine \in CleanupRoutines, auto_confirm \in BOOLEAN,
          dir_exists \in BOOLEAN, disk \in SUBSET CleanupFiles :
         /\ auto_confirm => routine \in CleanerRoutines
         /\ ~dir_exists => disk = {}
         /\ cleanup = [NoCleanup EXCEPT
                          !.pc = CleanupStart(routine),
                          !.routine = routine,
                          !.auto_confirm = auto_confirm,
                          !.dir_before = dir_exists,
                          !.dir_exists = dir_exists,
                          !.before = disk,
                          !.disk = disk]

\* cleanup_gdal_test_data up to the call of offer_simple_cleanup
CleanupScan ==
    /\ cleanup.pc = "scan"
    /\ cleanup' = [cleanup EXCEPT
                     !.found = scan_test_files(cleanup.dir_exists,
                                               cleanup.disk,
                                               Patterns(cleanup.routine)),
                     !.pc = "offer"]
    /\ UNCHANGED cleanupRest

\* offer_simple_cleanup up to the call of delete_files
CleanupOffer ==
    /\ cleanup.pc = "offer"
    /\ IF cleanup.found = <<>>
       THEN cleanup' = [cleanup EXCEPT !.ret = "False", !.pc = "done"]
       ELSE IF cleanup.auto_confirm
            THEN cleanup' = [cleanup EXCEPT !.k = 1, !.pc = "delete"]
            ELSE \/ cleanup' = [cleanup EXCEPT !.interrupted = TRUE,
                                               !.ret = "False",
                                               !.pc = "done"]
                 \/ \E typed \in Inputs :
                      cleanup' =
                         IF ShouldClean(typed)
                         THEN [cleanup EXCEPT !.typed = typed, !.k = 1,
                                              !.pc = "delete"]
                         ELSE [cleanup EXCEPT !.typed = typed,
                                              !.ret = "False",
                                              !.pc = "done"]
    /\ UNCHANGED cleanupRest

\* delete_files: one file of the list, or the end of the list and the
\* return of deleted_count > 0
CleanupDelete ==
    /\ cleanup.pc = "delete"
    /\ IF cleanup.k > Len(cleanup.found)
       THEN cleanup' = [cleanup EXCEPT
                          !.ret = IF cleanup.deleted_count > 0
                                  THEN "True" ELSE "False",
                          !.pc = "done"]
       ELSE \E raises \in BOOLEAN :
               /\ raises => cleanup.failures < MaxFaults
               /\ cleanup' = UnlinkStep(cleanup, raises)
    /\ UNCHANGED cleanupRest

\* the prompt of the routines that remove the whole directory, with the
\* test for the directory before it (cross-platform runner) or after it
\* (cleanup_test_data.py)
CleanupConfirm ==
    /\ cleanup.pc = "confirm"
    /\ IF cleanup.routine = "cleanup_entire_directory" /\ ~cleanup.dir_exists
       THEN cleanup' = [cleanup EXCEPT !.pc = "done"]
       ELSE \/ cleanup' = [cleanup EXCEPT !.interrupted = TRUE, !.pc = "done"]
            \/ \E typed \in Inputs :
                 cleanup' =
                    IF Confirms(typed) /\ cleanup.dir_exists
                    THEN [cleanup EXCEPT !.typed = typed, !.pc = "rmtree"]
                    ELSE [cleanup EXCEPT !.typed = typed, !.pc = "done"]
    /\ UNCHANGED cleanupRest

\* shutil.rmtree: the directory and all its files go, or an error ends it
\* after some of the files went
CleanupRmtree ==
    /\ cleanup.pc = "rmtree"
    /\ \/ cleanup' = [cleanup EXCEPT !.disk = {}, !.dir_exists = FALSE,
                                     !.pc = "done"]
       \/ /\ cleanup.failures < MaxFaults
          /\ \E left \in (SUBSET cleanup.disk) \ {{}} :
               cleanup' = [cleanup EXCEPT !.disk = left, !.failures = @ + 1,
                                          !.pc = "done"]
    /\ UNCHANGED cleanupRest

\* cleanup_all_files: the loop over the files of the directory itself
CleanupAllFiles ==
    /\ cleanup.pc = "all_files"
    /\ IF ~cleanup.dir_exists
       THEN cleanup' = [cleanup EXCEPT !.pc = "done"]
       ELSE IF cleanup.k = 0
            THEN cleanup' = [cleanup EXCEPT
                               !.found = SeqOf({f \in cleanup.disk : ~f.sub}),
                               !.k = 1]
            ELSE IF cleanup.k > Len(cleanup.found)
                 THEN cleanup' = [cleanup EXCEPT
                                    !.pc = IF cleanup.disk = {}
                                           THEN "rmdir" ELSE "done"]
                 ELSE \E raises \in BOOLEAN :
                         /\ raises => cleanup.failures < MaxFaults
                         /\ cleanup' = UnlinkStep(cleanup, raises)
    /\ UNCHANGED cleanupRest

\* cleanup_all_files: the directory is empty, "delete it? [y/N]"
CleanupRmdir ==
    /\ cleanup.pc = "rmdir"
    /\ \/ cleanup' = [cleanup EXCEPT !.interrupted = TRUE, !.pc = "done"]
       \/ \E typed \in Inputs :
            cleanup' =
               IF Lower(Strip(typed)) = "y"
               THEN [cleanup EXCEPT !.typed = typed, !.dir_exists = FALSE,
                                    !.pc = "done"]
               ELSE [cleanup EXCEPT !.typed = typed, !.pc = "done"]
    /\ UNCHANGED cleanupRest

NextCleanup ==
    \/ CleanupScan
    \/ CleanupOffer
    \/ CleanupDelete
    \/ CleanupConfirm
    \/ CleanupRmtree
    \/ CleanupAllFiles
    \/ CleanupRmdir

SpecCleanup == InitCleanup /\ [][NextCleanup]_vars

-----------------------------------------------------------------------------
(* Properties *)

Batched == {"LargeScale", "CrossPlatform"}

C2_PartialWriteFailure ==
    (pc = "cell_store" /\ wr.fail_at > 0) =>
        /\ wr.rollbacks = 1
        /\ wr.committed = wr.N * ((wr.fail_at - 1) \div wr.N)
        /\ "committed" \in cell.results.keys

\* C3: no failure of a cell ends the loop over the sizes and formats: the
\* run is never left through an exception.
C3_FailureNeverEndsRun == pc # "crashed"

\* C4: a write that reports success has committed every feature of the
\* dataset, and a full read of the file counts as many.
C4_SuccessWritesAll ==
    (wr.pc \in {"done", "read"} /\ wr.ret \in {"True", "None"}) =>
        /\ wr.committed = wr.M
        /\ wr.pc = "read" => wr.read_count = wr.M

C4_Witness ==
    /\ wr.pc = "read"
    /\ wr.kind = "CrossPlatform"
    /\ wr.ret = "True"
    /\ wr.N = 2
    /\ wr.M = 4
    /\ wr.read_count = 4

\* the results recorded so far, as <<size, format, result>>
RecordedCells ==
    UNION {{<<all_results[k][1], all_results[k][2].formats[j][1],
              all_results[k][2].formats[j][2]>> :
               j \in DOMAIN all_results[k][2].formats} :
           k \in DOMAIN all_results}

\* C5: no cell is recorded as successful with a read count that differs from
\* the number of features written.
C5_MismatchMarksFailed ==
    \A c \in RecordedCells :
        "feature_count" \in c[3].keys => c[3].feature_count = c[1]

Phases(k) == {e.phase : e \in {x \in log : x.si = k}}

C7_ReportHoldsEveryCell ==
    pc = "done" =>
        /\ DictKeys(all_results) = {test_sizes[k] : k \in DOMAIN test_sizes}
        /\ {report[n] : n \in DOMAIN report} =
              {<<test_sizes[k], test_formats[j]>> :
                  k \in DOMAIN test_sizes, j \in DOMAIN test_formats}

EstimatedMemory == probe.size * 1024 * 2
EstimatedDisk == probe.size * 2048 * 2 * 2

\* C8, as stated: the verdict is not-ok exactly when an estimate exceeds what
\* is available; an unknown disk reading does not veto.
C8_VetoWhenExceeds ==
    (probe.taken /\ probe.has_psutil /\ ~probe.raises) =>
        (probe.ok <=>
           ~(\/ EstimatedMemory > probe.available_memory
             \/ probe.disk_free # None /\ EstimatedDisk > probe.disk_free))

\* C8, amended: where the readings can be taken the verdict is not-ok exactly
\* when an estimate reaches or exceeds what is available (a size whose
\* estimate equals the available amount is vetoed); an unknown disk reading
\* does not veto, and without psutil or with a failing reading the verdict
\* is ok.
C8_VetoWhenReaches ==
    probe.taken =>
        (probe.ok <=>
           \/ ~probe.has_psutil
           \/ probe.raises
           \/ ~(\/ EstimatedMemory >= probe.available_memory
                \/ probe.disk_free # None /\ EstimatedDisk >= probe.disk_free))

C8_Witness ==
    /\ probe.taken
    /\ probe.runner = "LargeScale"
    /\ probe.size = 1
    /\ probe.available_memory = 2048
    /\ probe.disk_free > 8192
    /\ ~probe.ok

\* C9: a write or read that took no time gives a throughput that is not
\* available: the cell is not failed by the computation, and the read
\* throughput of a read that took no time is not a number.
C9_ZeroElapsedNotAvailable ==
    /\ (pc = "cell_store" /\ cell.write_time = 0) => ~cell.raised
    /\ \A c \in RecordedCells :
          ("read_time" \in c[3].keys /\ c[3].read_time = 0) =>
              c[3].read_throughput = None

\* C10: with a size that is not positive in the configuration nothing is
\* created, written or run.
C10_InvalidConfigRejected ==
    (\E k \in DOMAIN test_sizes : test_sizes[k] <= 0) =>
        /\ ~output_dir_exists
        /\ files = EmptyFiles
        /\ log = {}

\* the geometry kind each generator is asked for: the runners generate line
\* features, performance_test pairs 'Point' with create_test_points and
\* 'Polygon' with create_test_polygons
RequestedKind(which) ==
    CASE which = "create_test_points" -> "Point"
      [] which = "create_test_polygons" -> "Polygon"
      [] OTHER -> "LineString"

\* C11: a generator called with a count that is not negative returns a
\* dataset of exactly count features, each of the requested geometry kind
\* and each with its own id in generation order; for the batched generator
\* also when count is not a multiple of its batch or smaller than one batch.
C11_GeneratesCountOfKind ==
    (gen.pc = "done" /\ gen.count >= 0) =>
        /\ gen.ret = "list"
        /\ Len(gen.test_data) = gen.count
        /\ \A k \in DOMAIN gen.test_data :
              /\ gen.test_data[k].kind = RequestedKind(gen.which)
              /\ gen.test_data[k].id - gen.test_data[1].id = k - 1

C11_Witness ==
    /\ gen.pc = "done"
    /\ gen.which = "generate_test_data_batch"
    /\ gen.count = 1
    /\ GenBatchSize > gen.count
    /\ gen.count % GenBatchSize # 0
    /\ Len(gen.test_data) = 1

\* C12: a generator called with a count of 0 or less fails with an
\* InvalidParameter error and returns no dataset.
C12_BadCountRejected ==
    (gen.pc = "done" /\ gen.count <= 0) => gen.ret = "InvalidParameter"

\* the phases logged for the cell of size index k and format index j
CellPhases(k, j) == {e.phase : e \in {x \in log : x.si = k /\ x.fi = j}}

Reads == {"read", "sample_read"}

\* C13: in each cell the dataset is generated before the write, the write is
\* over before the footprint, the footprint before the read, the read before
\* the spatial query and the query before the result is recorded, no phase
\* starting before the one before it is over; a cell whose write failed runs
\* neither footprint nor read nor query and is recorded as
\* {'error': 'Write failed'}.
C13_PhaseOrder ==
    /\ \A k \in DOMAIN test_sizes, j \in DOMAIN test_formats :
          LET P == CellPhases(k, j) IN
          /\ "write" \in P => "generate" \in Phases(k)
          /\ "footprint" \in P => "write" \in P
          /\ P \cap Reads # {} => "footprint" \in P
          /\ "query" \in P => P \cap Reads # {}
    /\ (pc = "format_head" /\ fi <= Len(test_formats)) =>
          CellPhases(si, fi) = {}
    /\ pc = "cell_measure" => CellPhases(si, fi) = {"write"}
    /\ pc = "cell_read" => CellPhases(si, fi) = {"write", "footprint"}
    /\ pc = "cell_query" =>
          \E r \in Reads : CellPhases(si, fi) = {"write", "footprint", r}
    /\ (pc = "cell_store" /\ wr.ret = "False") =>
          /\ CellPhases(si, fi) = {"write"}
          /\ cell.results = WriteFailedResult
          /\ ~cell.raised
    /\ pc \in {"format_head", "cell_measure", "cell_read", "cell_query",
               "cell_store"} =>
          \A j \in 1..(fi - 1) :
             /\ test_formats[j] \in DictKeys(size_results)
             /\ "write" \in CellPhases(si, j)
             /\ "footprint" \notin CellPhases(si, j) =>
                   /\ CellPhases(si, j) = {"write"}
                   /\ DictValue(size_results, test_formats[j])
                         = WriteFailedResult

C13_Witness ==
    /\ pc = "format_head"
    /\ fi = 3
    /\ CellPhases(si, 1) = {"write"}
    /\ DictValue(size_results, test_formats[1]) = WriteFailedResult
    /\ CellPhases(si, 2) = {"write", "footprint", "read", "query"}

\* C14: a read that could not open the file (missing or unreadable) or could
\* not read a feature, and a spatial query that could not open the file,
\* reach the runner as an exception: the cell is not given a feature count or
\* a query count from them.
C14_NoErrorSwallowed ==
    pc = "cell_store" =>
        /\ cell.read_env \in {"missing", "open_error", "feature_error"}
              => cell.raised
        /\ cell.query_env = "open_error" => cell.raised

\* C15: the read of every cell is a full read, never a sampled one, and a
\* cell that got past its read has a feature count equal to the size of its
\* dataset.
C15_FullReadVerified ==
    /\ \A e \in log : e.phase # "sample_read"
    /\ \A c \in RecordedCells :
          "query_time" \in c[3].keys =>
              /\ "feature_count" \in c[3].keys
              /\ c[3].feature_count = c[1]

\* a recorded result of a cell that ran to its end
CompletedCell(result) == Truthy(result) /\ "error" \notin result.keys

\* C16: the run is reported as completed exactly when at least one cell ran
\* to its end; a run in which every cell failed or was skipped is reported
\* as failed.
C16_SuccessIffCellCompleted ==
    /\ RunOutcome = "completed" =>
          \E c \in RecordedCells : CompletedCell(c[3])
    /\ RunOutcome = "failed" =>
          ~ \E c \in RecordedCells : CompletedCell(c[3])

\* C17: the footprint measured is the sum of the sizes of all existing files
\* of the dataset (.shp, .shx, .dbf, .prj, .cpg of a Shapefile, the one file
\* of a GeoPackage), and every footprint routine adds up the extensions the
\* cleanup before the write removes.
C17_FootprintSumsAllFiles ==
    /\ \A routine \in FootprintRoutines :
          SizeExts(routine) = CleanupExts(routine)
    /\ (footprint.pc = "done" /\ ~footprint.raised) =>
          footprint.total =
             total_size(footprint.exists
                           \cap DatasetFiles(footprint.format_name))

\* C18: the runner never holds more than one generated dataset: the dataset
\* of one size is released before the dataset of the next size is generated.
C18_AtMostOneDataset == DatasetsHeld(perf) <= 1

\* C19: the result matrix only grows at its end: a step of the run leaves
\* every item recorded so far where it is and as it is.
C19_AppendOnly ==
    [][/\ Len(all_results') >= Len(all_results)
       /\ \A k \in DOMAIN all_results : all_results'[k] = all_results[k]]_vars

\* C20: an interrupt ends the run between two cells only, never inside a
\* cell, and after it every dataset file in the output directory holds all
\* features of its dataset.
C20_AbortBetweenCells ==
    pc = "interrupted" =>
        /\ cell = NoCell
        /\ wr.ret # "interrupted"
        /\ \A path \in DOMAIN files : files[path] = path[2]

\* C21: a run whose report could not be written is not reported as
\* completed.
C21_ReportErrorIsFatal ==
    ReportFailure \in log => RunOutcome = "failed"

\* the sizes whose GeoPackage value of a metric is positive
HasRatio(results, metric) ==
    {i \in 1..Len(results) : results[i]["geopackage"][metric] > 0}

\* C22: for every metric the summary names Shapefile exactly when the ratio
\* Shapefile / GeoPackage exists for every tested size and the arithmetic mean
\* of the ratios of all tested sizes is below 1.
C22_NamesShapefileExactlyBelowOne ==
    summary.pc = "printed" =>
       \A metric \in Metrics :
          summary.advice[metric] = "Shapefile" <=>
             /\ HasRatio(summary.results, metric) = 1..Len(summary.results)
             /\ RatioSum([i \in 1..Len(summary.results) |->
                             Ratio(summary.results[i], metric)])[1]
                   < Len(summary.results)
                        * RatioSum([i \in 1..Len(summary.results) |->
                                       Ratio(summary.results[i], metric)])[2]

\* C23: the ids of the features of a generated dataset are pairwise distinct
\* and are exactly the values 1..count, whichever generator made it.
C23_IdsAreOneToCount ==
    (gen.pc = "done" /\ gen.ret = "list") =>
        /\ \A k, l \in DOMAIN gen.test_data :
              gen.test_data[k].id = gen.test_data[l].id => k = l
        /\ {gen.test_data[k].id : k \in DOMAIN gen.test_data} = 1..gen.count

\* the list is the one LargeScalePerformanceTest.__init__ builds
IsLargeScaleRange ==
    /\ range_call.pc = "done"
    /\ range_call.start = LargeScaleStart
    /\ range_call.stop = LargeScaleStop
    /\ range_call.step = LargeScaleStep

\* C24: the sizes of the large-scale test run from 10,000 to 1,000,000: the
\* first is 10,000, the last is 1,000,000 and none is above 1,000,000.
C24_SizesFromTenThousandToOneMillion ==
    IsLargeScaleRange =>
        /\ range_call.out # <<>>
        /\ range_call.out[1] = 10000
        /\ range_call.out[Len(range_call.out)] = 1000000
        /\ \A k \in DOMAIN range_call.out : range_call.out[k] <= 1000000

\* the point lies in the box
InBox(p) ==
    /\ LonMin <= p[1] /\ p[1] <= LonMax
    /\ LatMin <= p[2] /\ p[2] <= LatMax

\* C25: a generated line string has exactly points_count vertices, its first
\* vertex is the base coordinate of its id, and every vertex lies in the box,
\* whatever the id and the random steps.
C25_LineInBox ==
    /\ \A k \in DOMAIN line.points : InBox(line.points[k])
    /\ line.points # <<>> =>
          line.points[1] = <<base_lon(line.line_id), base_lat(line.line_id)>>
    /\ line.pc = "done" => Len(line.points) = line.points_count

\* a line of three points that starts one step from the east edge and is
\* held at the edge twice
C25_Witness ==
    /\ line.pc = "done"
    /\ line.points_count = 3
    /\ line.line_id % BaseWrap = BaseWrap - 1
    /\ line.points[1][1] = LonMax - BaseUnit
    /\ line.points[2][1] = LonMax
    /\ line.points[3][1] = LonMax

\* the paths runner r deleted, created, read or measured
TouchedPaths(r) == {t[2] : t \in fleet.touched[r]}

\* C26: with different output directories, every file a runner deletes,
\* creates, reads or measures lies in its own output directory, and a file
\* appears in or disappears from a directory only by the runner of that
\* directory, in every interleaving of the two runners.
C26_RunnersKeepToTheirDirectory ==
    fleet.pc = "run" =>
       /\ \A r \in FleetRunners :
             \A path \in TouchedPaths(r) : path.dir = fleet.output_dir[r]
       /\ \A path \in fleet.disk \ fleet.leftover :
             \E r \in FleetRunners :
                /\ path.dir = fleet.output_dir[r]
                /\ <<"create", path>> \in fleet.touched[r]
       /\ \A path \in fleet.leftover \ fleet.disk :
             \E r \in FleetRunners :
                /\ path.dir = fleet.output_dir[r]
                /\ <<"delete", path>> \in fleet.touched[r]

\* runner 1 has deleted the leftover of its directory and written its first
\* Shapefile while runner 2, not yet started, still has the leftover of the
\* same name in its own directory
C26_Witness ==
    /\ fleet.pc = "run"
    /\ <<"delete", LinesPath(fleet.output_dir[1], "Shapefile", 1)>>
          \in fleet.touched[1]
    /\ <<"create", LinesPath(fleet.output_dir[1], "Shapefile", 1)>>
          \in fleet.touched[1]
    /\ fleet.at[2] = [pc |-> "cleanup", si |-> 1, fi |-> 1]
    /\ LinesPath(fleet.output_dir[2], "Shapefile", 1) \in fleet.disk
    /\ RelatedFile(LinesPath(fleet.output_dir[2], "Shapefile", 1), ".cpg")
          \in fleet.disk

\* the elements of a list
Range(seq) == {seq[k] : k \in DOMAIN seq}

\* the files the routine has removed so far
Removed == cleanup.before \ cleanup.disk

\* C27: the quick cleanup removes only files that match a data pattern and
\* leaves every .md, .txt and .log file where it is; it returns True exactly
\* when it removed at least one file; it removes nothing when no file
\* matches or the user declines.
C27_QuickCleanupKeepsReports ==
    cleanup.routine = "quick_cleanup_current_dir" =>
       /\ cleanup.disk \subseteq cleanup.before
       /\ \A f \in Removed : f.ext \in Range(data_patterns)
       /\ \A f \in cleanup.before :
             f.ext \in Range(report_patterns) => f \in cleanup.disk
       /\ cleanup.pc = "done" => (cleanup.ret = "True" <=> Removed # {})
       /\ (\A f \in cleanup.before : f.ext \notin Range(data_patterns))
             => Removed = {}
       /\ (cleanup.interrupted
             \/ (cleanup.typed.given /\ ~ShouldClean(cleanup.typed)))
             => Removed = {}
       /\ cleanup.dir_exists = cleanup.dir_before

\* the quick cleanup has removed the data files, one of them in a
\* subdirectory, and kept the reports beside them
C27_Witness ==
    /\ cleanup.routine = "quick_cleanup_current_dir"
    /\ cleanup.pc = "done"
    /\ cleanup.before = CleanupFiles
    /\ cleanup.ret = "True"
    /\ cleanup.disk = {f \in CleanupFiles : f.ext \in Range(report_patterns)}

\* the user typed the confirmation word and nothing else
TypedExactly(typed, word) == typed.given /\ typed.word = word /\ ~typed.pad

\* the routine has removed a file or the directory
RemovedSomething ==
    \/ Removed # {}
    \/ cleanup.dir_exists # cleanup.dir_before

C28_TransactionEndedBeforeClose == ~wr.closed_in_txn

\* the geometry kinds and sizes performance_test() has written so far
PerfWritten ==
    {c \in (DOMAIN geometry_tests) \X (DOMAIN perf.test_sizes) :
        \/ c[1] < perf.gi
        \/ /\ c[1] = perf.gi
           /\ perf.pc # "geom_head"
           /\ \/ c[2] < perf.si
              \/ c[2] = perf.si /\ perf.pc \in {"read", "size", "record"}}

PerfCells ==
    (DOMAIN geometry_tests) \X (DOMAIN perf.test_sizes)
       \X (DOMAIN test_formats)

PerfCellPath(c) ==
    PerfPath(geometry_tests[c[1]], perf.test_sizes[c[2]], test_formats[c[3]])

\* C29: the cells (geometry kind, size, backend) of a run have pairwise
\* different dataset paths, and the dataset of every cell written so far is
\* in place with all its features, whatever later cells cleaned up and wrote.
C29_EarlierDatasetsKept ==
    perf.pc \notin {"idle", "crashed"} =>
       /\ \A c, d \in PerfCells : c # d => PerfCellPath(c) # PerfCellPath(d)
       /\ \A c \in PerfWritten :
             \A j \in DOMAIN test_formats :
                Stored(perf.files, PerfCellPath(<<c[1], c[2], j>>))
                   = perf.test_sizes[c[2]]

\* the second geometry kind has written its second size, and the datasets
\* of the first size and of the first kind are there beside it
C29_Witness ==
    /\ perf.pc = "read"
    /\ perf.gi = 2
    /\ perf.si = 2
    /\ Len(perf.test_sizes) = 2
    /\ DOMAIN perf.files = {PerfCellPath(c) : c \in PerfCells}

====
